---- MODULE Spec2Model ----
(***************************************************************************)
(* State-machine model of the vertex-centric KV cache                      *)
(* (src/level4/agents/cache_manager.rs) and of the streaming inference     *)
(* engine built on it (src/level4/api/stream.rs).                          *)
(*                                                                         *)
(* Every tokio RwLock of VertexCentricCache is a record [w, r] of the      *)
(* callers holding its write guard and its read guards.  An operation of   *)
(* the cache is cut at its .await points on a lock: a step acquires a      *)
(* lock (it is enabled only when the lock can be granted) and runs the     *)
(* code up to the next acquisition that can block.                         *)
(***************************************************************************)
EXTENDS Integers, Sequences, FiniteSets, TLC

(***************************************************************************)
(* Bounds of the model.                                                    *)
(***************************************************************************)
MaxOps == 3
MaxSeconds == 1
MaxCap == 2
MaxLen == 3
MaxChunkSize == 2
FloodLen == 102

(***************************************************************************)
(* Program constants.                                                      *)
(***************************************************************************)
MsPerSec == 1000
ChannelCapacity == 100
FanOut == 4
HitsCycle == 3
BaseConfidence == 85

(***************************************************************************)
(* Inputs.  Vertex ids and keys are arbitrary strings (&str); two of them  *)
(* contain the ':' that make_cache_key joins with.                         *)
(***************************************************************************)
Clients == {"c1", "c2"}
Vertices == {"a", "a:b"}
Keys == {"c", "b:c"}
Values == {<<1>>, <<2>>}
OneValue == {<<1>>}
Costs == {5}

VARIABLES
    cache,          \* HashMap<String, CacheEntry>: composite key -> entry
    vertex_index,   \* HashMap<String, Vec<String>>: vertex id -> composite keys
    hits,           \* usize
    misses,         \* usize
    max_entries,    \* usize, fixed by new()
    locks,          \* the four RwLocks: name -> [w: holders, r: holders]
    call,           \* caller -> the cache operation it is running
    now,            \* wall clock, in milliseconds since the first call
    opsStarted,     \* number of client calls started (bounded by MaxOps)
    lastPut,        \* history: (vertex_id, key) -> value of the last put whose
                    \* entry was not evicted, invalidated or cleared since
    getsDone,       \* history: number of get calls completed since the last clear
    putsDone,       \* history: vertex -> number of put calls for it completed since
                    \* the last invalidate_vertex of it or clear
    config,         \* StreamConfig: chunk_size, enable_parallel_graph
    task,           \* stream -> the background task spawned by stream_inference
    chan,           \* stream -> the chunks buffered in its mpsc channel
    rx,             \* stream -> state of the Receiver handed to the caller
    received,       \* stream -> the chunks recv() has returned, in order
    batch,          \* the queries a running stream_batch has still to start
    sent,           \* history: stream -> the chunks send() has placed in the channel
    built,          \* history: stream -> the chunks built by the task
    probesIssued,   \* history: stream -> number of cache probes spawned
    atDrop,         \* history: stream -> what had been built, probed and sent
                    \* when the Receiver was dropped
    collector       \* stream -> the collect_stream or get_stream_stats call its
                    \* Receiver was moved into

cacheVars == <<cache, vertex_index, hits, misses, max_entries, locks, lastPut,
              getsDone, putsDone>>
streamVars == <<config, task, chan, rx, received, batch, sent, built,
                probesIssued, atDrop, collector>>
vars == <<cache, vertex_index, hits, misses, max_entries, locks, call, now,
          opsStarted, lastPut, getsDone, putsDone, config, task, chan, rx, received, batch, sent,
          built, probesIssued, atDrop, collector>>

(***************************************************************************)
(* Values.                                                                 *)
(***************************************************************************)
None == [kind |-> "none"]
Some(v) == [kind |-> "some", val |-> v]
Ok == [kind |-> "ok"]
NoRet == [kind |-> "pending"]

IdleCall == [op |-> "idle", pc |-> "idle", vertex_id |-> "", key |-> "",
             value |-> <<>>, cost |-> 0, tmp |-> 0, rest |-> <<>>, ret |-> NoRet]

Pairs == Vertices \X Keys

\* The record of a call that has returned r.
Finished(c, r) == [c EXCEPT !.pc = "done", !.tmp = 0, !.ret = r]

Remove(f, ks) == [x \in DOMAIN f \ ks |-> f[x]]
Insert(f, k, v) == [x \in DOMAIN f \cup {k} |-> IF x = k THEN v ELSE f[x]]

(***************************************************************************)
(* Pure helpers of VertexCentricCache.                                     *)
(***************************************************************************)
make_cache_key(vertex_id, key) == vertex_id \o ":" \o key

current_timestamp == now \div MsPerSec

\* Mutant of LruCandidates: the victim is any entry, not one of minimal timestamp.
LruCandidates_Any(c) == DOMAIN c

\* The candidates min_by_key can return: HashMap iteration order is
\* arbitrary, so any entry of minimal timestamp.
LruCandidates(c) ==
    {k \in DOMAIN c : \A j \in DOMAIN c : c[k].timestamp <= c[j].timestamp}

\* The tables evict_lru can leave behind.
evict_lru(c) ==
    IF DOMAIN c = {} THEN {c} ELSE {Remove(c, {k}) : k \in LruCandidates(c)}

(***************************************************************************)
(* tokio::sync::RwLock.                                                    *)
(***************************************************************************)
FreeLock == [w |-> {}, r |-> {}]
CanWrite(l) == locks[l].w = {} /\ locks[l].r = {}
CanRead(l) == locks[l].w = {}
AcquireW(L, l, p) == [L EXCEPT ![l].w = @ \cup {p}]
AcquireR(L, l, p) == [L EXCEPT ![l].r = @ \cup {p}]
Release(L, l, p) == [L EXCEPT ![l].w = @ \ {p}, ![l].r = @ \ {p}]

IsIdle(p) == call[p].pc \in {"idle", "done"}
MayStart(p) == IsIdle(p) /\ opsStarted < MaxOps

\* History bookkeeping: the pairs whose composite key left the table.
Forget(h, removed) ==
    [pr \in DOMAIN h |->
        IF make_cache_key(pr[1], pr[2]) \in removed THEN None ELSE h[pr]]

(***************************************************************************)
(* put                                                                     *)
(***************************************************************************)
\* cache.write().await of put
PutLockCache(p, v, k, val, cost) ==
    /\ MayStart(p)
    /\ CanWrite("cache")
    /\ locks' = AcquireW(locks, "cache", p)
    /\ call' = [call EXCEPT ![p] = [IdleCall EXCEPT !.op = "put",
                  !.pc = "cache_locked", !.vertex_id = v, !.key = k,
                  !.value = val, !.cost = cost]]
    /\ opsStarted' = opsStarted + 1
    /\ UNCHANGED streamVars
    /\ UNCHANGED <<cache, vertex_index, hits, misses, max_entries, now, lastPut,
                   getsDone, putsDone>>

\* Mutant of PutEvict: the write guard is scoped to the capacity check and is
\* dropped before the insert (the check and the insert are two critical sections).
PutEvict_Unlocked(p) ==
    /\ call[p].op = "put" /\ call[p].pc = "cache_locked"
    /\ IF Cardinality(DOMAIN cache) >= max_entries
         THEN cache' \in evict_lru(cache)
         ELSE cache' = cache
    /\ lastPut' = Forget(lastPut, DOMAIN cache \ DOMAIN cache')
    /\ call' = [call EXCEPT ![p].pc = "checked"]
    /\ locks' = Release(locks, "cache", p)
    /\ UNCHANGED streamVars
    /\ UNCHANGED <<vertex_index, hits, misses, max_entries, now, opsStarted,
                   getsDone, putsDone>>

\* if cache.len() >= self.max_entries { self.evict_lru(&mut cache).await; }
PutEvict(p) ==
    /\ call[p].op = "put" /\ call[p].pc = "cache_locked"
    /\ IF Cardinality(DOMAIN cache) >= max_entries
         THEN cache' \in evict_lru(cache)
         ELSE cache' = cache
    /\ lastPut' = Forget(lastPut, DOMAIN cache \ DOMAIN cache')
    /\ call' = [call EXCEPT ![p].pc = "checked"]
    /\ UNCHANGED streamVars
    /\ UNCHANGED <<vertex_index, hits, misses, max_entries, locks, now, opsStarted,
                   getsDone, putsDone>>

\* Mutant of PutInsert: the guard of the main table is dropped after the
\* insert.
PutInsert_ReleasesGuard(p) ==
    /\ call[p].op = "put" /\ call[p].pc = "checked"
    /\ LET c == call[p]
           entry == [vertex_id |-> c.vertex_id, key |-> c.key, value |-> c.value,
                     timestamp |-> current_timestamp, access_count |-> 1,
                     computation_cost |-> c.cost]
       IN /\ cache' = Insert(cache, make_cache_key(c.vertex_id, c.key), entry)
          /\ lastPut' = [lastPut EXCEPT ![<<c.vertex_id, c.key>>] = Some(c.value)]
    /\ locks' = Release(locks, "cache", p)
    /\ call' = [call EXCEPT ![p].pc = "inserted"]
    /\ UNCHANGED streamVars
    /\ UNCHANGED <<vertex_index, hits, misses, max_entries, now, opsStarted,
                   getsDone, putsDone>>

\* cache.insert(cache_key.clone(), entry)
PutInsert(p) ==
    /\ call[p].op = "put" /\ call[p].pc = "checked"
    /\ LET c == call[p]
           entry == [vertex_id |-> c.vertex_id, key |-> c.key, value |-> c.value,
                     timestamp |-> current_timestamp, access_count |-> 1,
                     computation_cost |-> c.cost]
       IN /\ cache' = Insert(cache, make_cache_key(c.vertex_id, c.key), entry)
          /\ lastPut' = [lastPut EXCEPT ![<<c.vertex_id, c.key>>] = Some(c.value)]
    /\ call' = [call EXCEPT ![p].pc = "inserted"]
    /\ UNCHANGED streamVars
    /\ UNCHANGED <<vertex_index, hits, misses, max_entries, locks, now, opsStarted,
                   getsDone, putsDone>>

\* Mutant of PutIndex: the composite key is appended only when the row does
\* not hold it yet.
PutIndex_IfAbsent(p) ==
    /\ call[p].op = "put" /\ call[p].pc = "inserted"
    /\ CanWrite("vertex_index")
    /\ LET c == call[p]
           ck == make_cache_key(c.vertex_id, c.key)
           row == IF c.vertex_id \in DOMAIN vertex_index
                    THEN vertex_index[c.vertex_id] ELSE <<>>
       IN vertex_index' = Insert(vertex_index, c.vertex_id,
                             IF \E i \in 1..Len(row) : row[i] = ck
                               THEN row ELSE Append(row, ck))
    /\ putsDone' = [putsDone EXCEPT ![call[p].vertex_id] = @ + 1]
    /\ locks' = Release(locks, "cache", p)
    /\ call' = [call EXCEPT ![p] = Finished(call[p], Ok)]
    /\ UNCHANGED streamVars
    /\ UNCHANGED <<cache, hits, misses, max_entries, now, opsStarted, lastPut,
                   getsDone>>

\* vertex_index.write().await, the push, and the return (both guards dropped)
PutIndex(p) ==
    /\ call[p].op = "put" /\ call[p].pc = "inserted"
    /\ CanWrite("vertex_index")
    /\ LET c == call[p]
           row == IF c.vertex_id \in DOMAIN vertex_index
                    THEN vertex_index[c.vertex_id] ELSE <<>>
       IN vertex_index' = Insert(vertex_index, c.vertex_id,
                             Append(row, make_cache_key(c.vertex_id, c.key)))
    /\ putsDone' = [putsDone EXCEPT ![call[p].vertex_id] = @ + 1]
    /\ locks' = Release(locks, "cache", p)
    /\ call' = [call EXCEPT ![p] = Finished(call[p], Ok)]
    /\ UNCHANGED streamVars
    /\ UNCHANGED <<cache, hits, misses, max_entries, now, opsStarted, lastPut,
                   getsDone>>

(***************************************************************************)
(* get                                                                     *)
(***************************************************************************)
\* cache.write().await of get, for a call already issued (pc = "start")
GetLockCache(p) ==
    /\ call[p].op = "get" /\ call[p].pc = "start"
    /\ CanWrite("cache")
    /\ locks' = AcquireW(locks, "cache", p)
    /\ call' = [call EXCEPT ![p].pc = "cache_locked"]
    /\ UNCHANGED streamVars
    /\ UNCHANGED <<cache, vertex_index, hits, misses, max_entries, now,
                   opsStarted, lastPut,
                   getsDone, putsDone>>

\* a client calls get and is granted cache.write()
ClientGet(p, v, k) ==
    /\ MayStart(p)
    /\ CanWrite("cache")
    /\ locks' = AcquireW(locks, "cache", p)
    /\ call' = [call EXCEPT ![p] = [IdleCall EXCEPT !.op = "get",
                  !.pc = "cache_locked", !.vertex_id = v, !.key = k]]
    /\ opsStarted' = opsStarted + 1
    /\ UNCHANGED streamVars
    /\ UNCHANGED <<cache, vertex_index, hits, misses, max_entries, now, lastPut,
                   getsDone, putsDone>>

\* Mutant of GetFinish: a hit leaves the entry's last-access time as it was.
GetFinish_NoRefresh(p) ==
    /\ call[p].op = "get" /\ call[p].pc = "cache_locked"
    /\ LET ck == make_cache_key(call[p].vertex_id, call[p].key)
       IN IF ck \in DOMAIN cache
            THEN /\ CanWrite("hits")
                 /\ cache' = [cache EXCEPT ![ck].access_count = @ + 1]
                 /\ hits' = hits + 1
                 /\ misses' = misses
                 /\ call' = [call EXCEPT ![p] = Finished(call[p], Some(cache[ck].value))]
            ELSE /\ CanWrite("misses")
                 /\ cache' = cache
                 /\ hits' = hits
                 /\ misses' = misses + 1
                 /\ call' = [call EXCEPT ![p] = Finished(call[p], None)]
    /\ getsDone' = getsDone + 1
    /\ locks' = Release(locks, "cache", p)
    /\ UNCHANGED streamVars
    /\ UNCHANGED <<vertex_index, max_entries, now, opsStarted, lastPut, putsDone>>

\* Mutant of GetFinish: a miss leaves an entry without a value in the main
\* table for the key it looked up.
GetFinish_FillsOnMiss(p) ==
    /\ call[p].op = "get" /\ call[p].pc = "cache_locked"
    /\ LET ck == make_cache_key(call[p].vertex_id, call[p].key)
       IN IF ck \in DOMAIN cache
            THEN /\ CanWrite("hits")
                 /\ cache' = [cache EXCEPT ![ck].access_count = @ + 1,
                                           ![ck].timestamp = current_timestamp]
                 /\ hits' = hits + 1
                 /\ misses' = misses
                 /\ call' = [call EXCEPT ![p] = Finished(call[p], Some(cache[ck].value))]
            ELSE /\ CanWrite("misses")
                 /\ cache' = Insert(cache, ck,
                                [vertex_id |-> call[p].vertex_id, key |-> call[p].key,
                                 value |-> <<>>, timestamp |-> current_timestamp,
                                 access_count |-> 0, computation_cost |-> 0])
                 /\ hits' = hits
                 /\ misses' = misses + 1
                 /\ call' = [call EXCEPT ![p] = Finished(call[p], None)]
    /\ getsDone' = getsDone + 1
    /\ locks' = Release(locks, "cache", p)
    /\ UNCHANGED streamVars
    /\ UNCHANGED <<vertex_index, max_entries, now, opsStarted, lastPut, putsDone>>

\* the lookup, the hit or miss branch with its counter lock, and the return
GetFinish(p) ==
    /\ call[p].op = "get" /\ call[p].pc = "cache_locked"
    /\ LET ck == make_cache_key(call[p].vertex_id, call[p].key)
       IN IF ck \in DOMAIN cache
            THEN /\ CanWrite("hits")
                 /\ cache' = [cache EXCEPT ![ck].access_count = @ + 1,
                                           ![ck].timestamp = current_timestamp]
                 /\ hits' = hits + 1
                 /\ misses' = misses
                 /\ call' = [call EXCEPT ![p] = Finished(call[p], Some(cache[ck].value))]
            ELSE /\ CanWrite("misses")
                 /\ cache' = cache
                 /\ hits' = hits
                 /\ misses' = misses + 1
                 /\ call' = [call EXCEPT ![p] = Finished(call[p], None)]
    /\ getsDone' = getsDone + 1
    /\ locks' = Release(locks, "cache", p)
    /\ UNCHANGED streamVars
    /\ UNCHANGED <<vertex_index, max_entries, now, opsStarted, lastPut, putsDone>>

(***************************************************************************)
(* get_vertex_entries                                                      *)
(***************************************************************************)
\* Mutant of VertexEntries: map_while, which stops at the first key that does
\* not resolve.
VertexEntries_UntilMissing(c, idx, v) ==
    IF v \in DOMAIN idx
      THEN LET row == idx[v]
               missing == {i \in 1..Len(row) : row[i] \notin DOMAIN c}
               n == IF missing = {} THEN Len(row)
                    ELSE (CHOOSE i \in missing : \A j \in missing : i <= j) - 1
           IN [i \in 1..n |-> c[row[i]]]
      ELSE <<>>

\* keys.iter().filter_map(|k| cache.get(k).cloned()).collect()
VertexEntries(c, idx, v) ==
    IF v \in DOMAIN idx
      THEN LET InCache(k) == k \in DOMAIN c
               live == SelectSeq(idx[v], InCache)
           IN [i \in 1..Len(live) |-> c[live[i]]]
      ELSE <<>>

\* vertex_index.read().await
GveLockIndex(p, v) ==
    /\ MayStart(p)
    /\ CanRead("vertex_index")
    /\ locks' = AcquireR(locks, "vertex_index", p)
    /\ call' = [call EXCEPT ![p] = [IdleCall EXCEPT !.op = "get_vertex_entries",
                  !.pc = "index_locked", !.vertex_id = v]]
    /\ opsStarted' = opsStarted + 1
    /\ UNCHANGED streamVars
    /\ UNCHANGED <<cache, vertex_index, hits, misses, max_entries, now, lastPut,
                   getsDone, putsDone>>

\* cache.read().await, the collection and the return
GveRead(p) ==
    /\ call[p].op = "get_vertex_entries" /\ call[p].pc = "index_locked"
    /\ CanRead("cache")
    /\ call' = [call EXCEPT ![p] = Finished(call[p],
                  [kind |-> "entries",
                   val |-> VertexEntries(cache, vertex_index, call[p].vertex_id)])]
    /\ locks' = Release(locks, "vertex_index", p)
    /\ UNCHANGED streamVars
    /\ UNCHANGED <<cache, vertex_index, hits, misses, max_entries, now,
                   opsStarted, lastPut,
                   getsDone, putsDone>>

(***************************************************************************)
(* prefetch: get_vertex_entries for each vertex id of the slice in turn,   *)
(* the lengths of the results summed.                                      *)
(***************************************************************************)
\* the slices of vertex ids a caller passes
PrefetchLists ==
    {<<>>} \cup {<<v>> : v \in Vertices} \cup {<<v, w>> : v \in Vertices, w \in Vertices}

\* the call; an empty slice returns Ok(0) without touching a lock
PrefetchCall(p, ids) ==
    /\ MayStart(p)
    /\ call' = [call EXCEPT ![p] =
                  IF ids = <<>>
                    THEN Finished([IdleCall EXCEPT !.op = "prefetch"],
                                  [kind |-> "count", val |-> 0])
                    ELSE [IdleCall EXCEPT !.op = "prefetch", !.pc = "loop",
                                          !.rest = ids]]
    /\ opsStarted' = opsStarted + 1
    /\ UNCHANGED streamVars
    /\ UNCHANGED <<cacheVars, now>>

\* vertex_index.read().await of the get_vertex_entries of this iteration
PrefetchLockIndex(p) ==
    /\ call[p].op = "prefetch" /\ call[p].pc = "loop"
    /\ CanRead("vertex_index")
    /\ locks' = AcquireR(locks, "vertex_index", p)
    /\ call' = [call EXCEPT ![p].pc = "index_locked"]
    /\ UNCHANGED streamVars
    /\ UNCHANGED <<cache, vertex_index, hits, misses, max_entries, now,
                   opsStarted, lastPut, getsDone, putsDone>>

\* cache.read().await, prefetched += entries.len(), and the next iteration
\* or the return
\* Mutant of PrefetchRead: the count of the last vertex replaces the total.
PrefetchRead_CountsLast(p) ==
    /\ call[p].op = "prefetch" /\ call[p].pc = "index_locked"
    /\ CanRead("cache")
    /\ LET c == call[p]
           n == Len(VertexEntries(cache, vertex_index, Head(c.rest)))
       IN call' = [call EXCEPT ![p] =
                     IF Tail(c.rest) = <<>>
                       THEN Finished([c EXCEPT !.rest = <<>>],
                                     [kind |-> "count", val |-> n])
                       ELSE [c EXCEPT !.pc = "loop", !.tmp = n,
                                      !.rest = Tail(c.rest)]]
    /\ locks' = Release(locks, "vertex_index", p)
    /\ UNCHANGED streamVars
    /\ UNCHANGED <<cache, vertex_index, hits, misses, max_entries, now,
                   opsStarted, lastPut, getsDone, putsDone>>

PrefetchRead(p) ==
    /\ call[p].op = "prefetch" /\ call[p].pc = "index_locked"
    /\ CanRead("cache")
    /\ LET c == call[p]
           n == c.tmp + Len(VertexEntries(cache, vertex_index, Head(c.rest)))
       IN call' = [call EXCEPT ![p] =
                     IF Tail(c.rest) = <<>>
                       THEN Finished([c EXCEPT !.rest = <<>>],
                                     [kind |-> "count", val |-> n])
                       ELSE [c EXCEPT !.pc = "loop", !.tmp = n,
                                      !.rest = Tail(c.rest)]]
    /\ locks' = Release(locks, "vertex_index", p)
    /\ UNCHANGED streamVars
    /\ UNCHANGED <<cache, vertex_index, hits, misses, max_entries, now,
                   opsStarted, lastPut, getsDone, putsDone>>

(***************************************************************************)
(* invalidate_vertex                                                       *)
(***************************************************************************)
\* vertex_index.write().await
InvLockIndex(p, v) ==
    /\ MayStart(p)
    /\ CanWrite("vertex_index")
    /\ locks' = AcquireW(locks, "vertex_index", p)
    /\ call' = [call EXCEPT ![p] = [IdleCall EXCEPT !.op = "invalidate_vertex",
                  !.pc = "index_locked", !.vertex_id = v]]
    /\ opsStarted' = opsStarted + 1
    /\ UNCHANGED streamVars
    /\ UNCHANGED <<cache, vertex_index, hits, misses, max_entries, now, lastPut,
                   getsDone, putsDone>>

\* cache.write().await, the removals and the return
InvRun(p) ==
    /\ call[p].op = "invalidate_vertex" /\ call[p].pc = "index_locked"
    /\ CanWrite("cache")
    /\ LET v == call[p].vertex_id
           keys == IF v \in DOMAIN vertex_index
                     THEN {vertex_index[v][i] : i \in 1..Len(vertex_index[v])}
                     ELSE {}
       IN /\ vertex_index' = Remove(vertex_index, {v})
          /\ cache' = Remove(cache, keys)
          /\ lastPut' = Forget(lastPut, keys \cap DOMAIN cache)
    /\ putsDone' = [putsDone EXCEPT ![call[p].vertex_id] = 0]
    /\ locks' = Release(locks, "vertex_index", p)
    /\ call' = [call EXCEPT ![p] = Finished(call[p], Ok)]
    /\ UNCHANGED streamVars
    /\ UNCHANGED <<hits, misses, max_entries, now, opsStarted,
                   getsDone>>

(***************************************************************************)
(* get_stats                                                               *)
(***************************************************************************)
RECURSIVE SumAccess(_, _)
SumAccess(c, ks) ==
    IF ks = {} THEN 0
    ELSE LET k == CHOOSE x \in ks : TRUE
         IN c[k].access_count + SumAccess(c, ks \ {k})

\* a ratio of two usize values cast to f64, kept as the pair
Ratio(n, d) == [num |-> n, den |-> d]

\* Mutant of StatsLockCache: the read guard of the main table is a temporary,
\* dropped before the counters are read.
StatsLockCache_ScopedGuard(p) ==
    /\ MayStart(p)
    /\ CanRead("cache")
    /\ call' = [call EXCEPT ![p] = [IdleCall EXCEPT !.op = "get_stats",
                  !.pc = "cache_locked"]]
    /\ opsStarted' = opsStarted + 1
    /\ UNCHANGED streamVars
    /\ UNCHANGED <<cacheVars, now>>

\* cache.read().await
StatsLockCache(p) ==
    /\ MayStart(p)
    /\ CanRead("cache")
    /\ locks' = AcquireR(locks, "cache", p)
    /\ call' = [call EXCEPT ![p] = [IdleCall EXCEPT !.op = "get_stats",
                  !.pc = "cache_locked"]]
    /\ opsStarted' = opsStarted + 1
    /\ UNCHANGED streamVars
    /\ UNCHANGED <<cache, vertex_index, hits, misses, max_entries, now, lastPut,
                   getsDone, putsDone>>

\* let hits = *self.hits.read().await
StatsReadHits(p) ==
    /\ call[p].op = "get_stats" /\ call[p].pc = "cache_locked"
    /\ CanRead("hits")
    /\ call' = [call EXCEPT ![p].pc = "hits_read", ![p].tmp = hits]
    /\ UNCHANGED streamVars
    /\ UNCHANGED <<cacheVars, now, opsStarted>>

\* let misses = *self.misses.read().await, the arithmetic and the return
StatsFinish(p) ==
    /\ call[p].op = "get_stats" /\ call[p].pc = "hits_read"
    /\ CanRead("misses")
    /\ LET h == call[p].tmp
           m == misses
           total_requests == h + m
           n == Cardinality(DOMAIN cache)
       IN call' = [call EXCEPT ![p] = Finished(call[p],
                        [kind |-> "stats",
                total_entries |-> n,
                total_hits |-> h,
                total_misses |-> m,
                hit_rate |-> IF total_requests > 0
                               THEN Ratio(h, total_requests) ELSE Ratio(0, 1),
                avg_access_count |-> IF n > 0
                               THEN Ratio(SumAccess(cache, DOMAIN cache), n)
                               ELSE Ratio(0, 1),
                memory_usage_mb |-> Ratio(n * 1024, 1024 * 1024)])]
    /\ locks' = Release(locks, "cache", p)
    /\ UNCHANGED streamVars
    /\ UNCHANGED <<cache, vertex_index, hits, misses, max_entries, now,
                   opsStarted, lastPut,
                   getsDone, putsDone>>

(***************************************************************************)
(* clear                                                                   *)
(***************************************************************************)
\* cache.write().await
ClearLockCache(p) ==
    /\ MayStart(p)
    /\ CanWrite("cache")
    /\ locks' = AcquireW(locks, "cache", p)
    /\ call' = [call EXCEPT ![p] = [IdleCall EXCEPT !.op = "clear",
                  !.pc = "cache_locked"]]
    /\ opsStarted' = opsStarted + 1
    /\ UNCHANGED streamVars
    /\ UNCHANGED <<cache, vertex_index, hits, misses, max_entries, now, lastPut,
                   getsDone, putsDone>>

\* vertex_index.write().await
ClearLockIndex(p) ==
    /\ call[p].op = "clear" /\ call[p].pc = "cache_locked"
    /\ CanWrite("vertex_index")
    /\ locks' = AcquireW(locks, "vertex_index", p)
    /\ call' = [call EXCEPT ![p].pc = "index_locked"]
    /\ UNCHANGED streamVars
    /\ UNCHANGED <<cache, vertex_index, hits, misses, max_entries, now,
                   opsStarted, lastPut,
                   getsDone, putsDone>>

\* Mutant of ClearTables: the guards of the two tables are scoped to the
\* clearing of the tables and dropped before the counters are reset.
ClearTables_ScopedGuards(p) ==
    /\ call[p].op = "clear" /\ call[p].pc = "index_locked"
    /\ CanWrite("hits") /\ CanWrite("misses")
    /\ cache' = <<>>
    /\ vertex_index' = <<>>
    /\ lastPut' = Forget(lastPut, DOMAIN cache)
    /\ locks' = Release(Release(locks, "cache", p), "vertex_index", p)
    /\ putsDone' = [v \in Vertices |-> 0]
    /\ call' = [call EXCEPT ![p].pc = "tables_cleared"]
    /\ UNCHANGED streamVars
    /\ UNCHANGED <<hits, misses, max_entries, now, opsStarted, getsDone>>

\* hits.write().await, misses.write().await, cache.clear(), index.clear()
ClearTables(p) ==
    /\ call[p].op = "clear" /\ call[p].pc = "index_locked"
    /\ CanWrite("hits") /\ CanWrite("misses")
    /\ cache' = <<>>
    /\ vertex_index' = <<>>
    /\ lastPut' = Forget(lastPut, DOMAIN cache)
    /\ locks' = AcquireW(AcquireW(locks, "hits", p), "misses", p)
    /\ putsDone' = [v \in Vertices |-> 0]
    /\ call' = [call EXCEPT ![p].pc = "tables_cleared"]
    /\ UNCHANGED streamVars
    /\ UNCHANGED <<hits, misses, max_entries, now, opsStarted, getsDone>>

\* Mutant of ClearRun: the misses counter is not reset.
ClearRun_KeepsMisses(p) ==
    /\ call[p].op = "clear" /\ call[p].pc = "tables_cleared"
    /\ hits' = 0
    /\ misses' = misses
    /\ getsDone' = 0
    /\ locks' = [l \in DOMAIN locks |-> Release(locks, l, p)[l]]
    /\ call' = [call EXCEPT ![p] = Finished(call[p], Ok)]
    /\ UNCHANGED streamVars
    /\ UNCHANGED <<cache, vertex_index, max_entries, now, opsStarted, lastPut,
                   putsDone>>

\* *hits = 0, *misses = 0 and the return (the four guards are dropped)
ClearRun(p) ==
    /\ call[p].op = "clear" /\ call[p].pc = "tables_cleared"
    /\ hits' = 0
    /\ misses' = 0
    /\ getsDone' = 0
    /\ locks' = [l \in DOMAIN locks |-> Release(locks, l, p)[l]]
    /\ call' = [call EXCEPT ![p] = Finished(call[p], Ok)]
    /\ UNCHANGED streamVars
    /\ UNCHANGED <<cache, vertex_index, max_entries, now, opsStarted, lastPut,
                   putsDone>>

(***************************************************************************)
(* The wall clock read by current_timestamp (whole seconds).               *)
(***************************************************************************)
TickSecond ==
    /\ now \div MsPerSec < MaxSeconds
    /\ now' = now + MsPerSec
    /\ UNCHANGED streamVars
    /\ UNCHANGED <<cacheVars, call, opsStarted>>

(***************************************************************************)
(* Streaming inference (src/level4/api/stream.rs).                         *)
(*                                                                         *)
(* The Reasoner's final answer is a sequence of bytes: "a" is a one-byte   *)
(* character, "L" "T" are the lead and the continuation byte of a two-byte *)
(* character.                                                              *)
(***************************************************************************)
Bytes == {"a", "L", "T"}

\* what std::str::from_utf8 accepts
ValidUtf8(b) ==
    \A i \in 1..Len(b) :
        /\ b[i] = "L" => (i < Len(b) /\ b[i + 1] = "T")
        /\ b[i] = "T" => (i > 1 /\ b[i - 1] = "L")

SeqsUpTo(S, n) == UNION {[1..m -> S] : m \in 0..n}

\* the texts a String can hold, up to MaxLen bytes
Answers == {b \in SeqsUpTo(Bytes, MaxLen) : ValidUtf8(b)}

\* the answer that fills the channel: FloodLen one-byte characters
FloodAnswers == {[i \in 1..FloodLen |-> "a"]}

Min(a, b) == IF a < b THEN a ELSE b

\* Mutant of ByteChunks: chunks_exact, which leaves the shorter last slice out.
ByteChunks_Exact(b, size) ==
    [j \in 1..(Len(b) \div size) |-> SubSeq(b, (j - 1) * size + 1, j * size)]

\* full_answer.as_bytes().chunks(chunk_size)
ByteChunks(b, size) ==
    [j \in 1..((Len(b) + size - 1) \div size) |->
        SubSeq(b, (j - 1) * size + 1, Min(j * size, Len(b)))]

\* std::str::from_utf8(chunk).unwrap_or("")
DecodeOrEmpty(chunk) == IF ValidUtf8(chunk) THEN chunk ELSE <<>>

\* the Vec<&str> chunks of stream_task
Slices(b, size) ==
    LET bc == ByteChunks(b, size) IN [j \in 1..Len(bc) |-> DecodeOrEmpty(bc[j])]

\* format!("{}", n) of a usize
Digit(d) == CASE d = 0 -> "0" [] d = 1 -> "1" [] d = 2 -> "2" [] d = 3 -> "3"
              [] d = 4 -> "4" [] d = 5 -> "5" [] d = 6 -> "6" [] d = 7 -> "7"
              [] d = 8 -> "8" [] d = 9 -> "9"

RECURSIVE Decimal(_)
Decimal(n) == IF n < 10 THEN Digit(n) ELSE Decimal(n \div 10) \o Digit(n % 10)

\* format!("vertex_{}_{}", chunk_id, i)
ProbeVertex(chunk_id, i) == "vertex_" \o Decimal(chunk_id) \o "_" \o Decimal(i)

\* (0..4).map(...).collect()
ProbeVertices(chunk_id) == [j \in 1..FanOut |-> ProbeVertex(chunk_id, j - 1)]

\* the task that one tokio::spawn of parallel_graph_access runs
ProbeId(s, j) == s \o "#" \o Decimal(j)
ProbesOf(s) == {ProbeId(s, j) : j \in 1..FanOut}

NewTask == [pc |-> "unspawned", exit |-> "running", answer |-> <<>>,
            chunks |-> <<>>, i |-> 0, nodes |-> <<>>, pending |-> <<>>,
            reason_calls |-> 0]

Streams == DOMAIN task

\* Mutant of BuildChunk: is_final is set on the first chunk, not on the last.
BuildChunk_FinalFirst(t, nodes) ==
    [chunk_id |-> t.i,
     content |-> t.chunks[t.i + 1],
     is_final |-> (t.i = 0),
     metadata |-> [timestamp_ms |-> now,
                   graph_nodes_accessed |-> nodes,
                   cache_hits |-> t.i % HitsCycle,
                   confidence |-> BaseConfidence + t.i]]

\* the StreamChunk of loop index t.i
BuildChunk(t, nodes) ==
    [chunk_id |-> t.i,
     content |-> t.chunks[t.i + 1],
     is_final |-> (t.i = Len(t.chunks) - 1),
     metadata |-> [timestamp_ms |-> now,
                   graph_nodes_accessed |-> nodes,
                   cache_hits |-> t.i % HitsCycle,
                   confidence |-> BaseConfidence + t.i]]

\* let (tx, rx) = mpsc::channel(100); tokio::spawn(...); Ok(rx)
Spawn(s) ==
    /\ task' = [task EXCEPT ![s].pc = "spawned"]
    /\ rx' = [rx EXCEPT ![s] = "open"]

\* stream_inference
StreamInference(s) ==
    /\ task[s].pc = "unspawned"
    /\ batch = <<>>
    /\ Spawn(s)
    /\ UNCHANGED <<cacheVars, call, now, opsStarted>>
    /\ UNCHANGED <<config, collector, chan, received, batch, sent, built, probesIssued, atDrop>>

\* the sequences of distinct streams not yet started
Queries(S) ==
    {q \in SeqsUpTo(S, Cardinality(S)) :
        /\ Len(q) >= 1
        /\ \A i, j \in 1..Len(q) : i # j => q[i] # q[j]}

\* stream_batch is called with the queries q
StreamBatch(q) ==
    /\ batch = <<>>
    /\ \A i \in 1..Len(q) : task[q[i]].pc = "unspawned"
    /\ batch' = q
    /\ UNCHANGED <<cacheVars, call, now, opsStarted>>
    /\ UNCHANGED <<config, collector, task, chan, rx, received, sent, built, probesIssued, atDrop>>

\* one iteration of the loop of stream_batch
BatchNext ==
    /\ batch # <<>>
    /\ Spawn(Head(batch))
    /\ batch' = Tail(batch)
    /\ UNCHANGED <<cacheVars, call, now, opsStarted>>
    /\ UNCHANGED <<config, collector, chan, received, sent, built, probesIssued, atDrop>>

\* Mutant of ReasonFails: the failure is reported in-band, as a final chunk
\* of empty content placed on the channel before the task returns.
ReasonFails_SendsErrorChunk(s) ==
    /\ task[s].pc = "spawned"
    /\ LET chunk == [chunk_id |-> 0, content |-> <<>>, is_final |-> TRUE,
                     metadata |-> [timestamp_ms |-> now,
                                   graph_nodes_accessed |-> <<>>,
                                   cache_hits |-> 0,
                                   confidence |-> 0]]
       IN /\ chan' = [chan EXCEPT ![s] = Append(@, chunk)]
          /\ sent' = [sent EXCEPT ![s] = Append(@, chunk)]
    /\ task' = [task EXCEPT ![s].pc = "done", ![s].exit = "failed",
                            ![s].reason_calls = @ + 1]
    /\ UNCHANGED <<cacheVars, call, now, opsStarted>>
    /\ UNCHANGED <<config, collector, rx, received, batch, built, probesIssued, atDrop>>

\* reasoning.reason(&query, query_type).await? returned Err: stream_task
\* returns the error, stream_inference logs it, tx is dropped
ReasonFails(s) ==
    /\ task[s].pc = "spawned"
    /\ task' = [task EXCEPT ![s].pc = "done", ![s].exit = "failed",
                            ![s].reason_calls = @ + 1]
    /\ UNCHANGED <<cacheVars, call, now, opsStarted>>
    /\ UNCHANGED <<config, collector, chan, rx, received, batch, sent, built, probesIssued, atDrop>>

\* reasoning.reason(...) returned Ok with final_answer = answer; the answer
\* is sliced; an empty Vec of chunks ends the task at once
ReasonOk(s, answer) ==
    /\ task[s].pc = "spawned"
    /\ LET sl == Slices(answer, config.chunk_size)
       IN task' = [task EXCEPT ![s].answer = answer, ![s].chunks = sl,
                     ![s].pc = IF sl = <<>> THEN "done" ELSE "tick",
                     ![s].exit = IF sl = <<>> THEN "completed" ELSE "running",
                     ![s].reason_calls = @ + 1]
    /\ UNCHANGED <<cacheVars, call, now, opsStarted>>
    /\ UNCHANGED <<config, collector, chan, rx, received, batch, sent, built, probesIssued, atDrop>>

\* Mutant of LoopTick: the Reasoner is invoked again for every chunk.
LoopTick_ReasonsPerChunk(s) ==
    /\ task[s].pc = "tick"
    /\ IF config.enable_parallel_graph
         THEN LET ids == ProbeVertices(task[s].i)
              IN /\ call' = [p \in DOMAIN call |->
                       IF \E j \in 1..FanOut : p = ProbeId(s, j)
                         THEN LET j == CHOOSE j \in 1..FanOut : p = ProbeId(s, j)
                              IN [IdleCall EXCEPT !.op = "get", !.pc = "start",
                                    !.vertex_id = ids[j], !.key = "embedding"]
                         ELSE call[p]]
                 /\ task' = [task EXCEPT ![s].pc = "join", ![s].nodes = ids,
                                        ![s].reason_calls = @ + 1]
                 /\ probesIssued' = [probesIssued EXCEPT ![s] = @ + FanOut]
                 /\ built' = built
         ELSE LET chunk == BuildChunk(task[s], <<>>)
              IN /\ task' = [task EXCEPT ![s].pc = "send", ![s].pending = <<chunk>>,
                                            ![s].reason_calls = @ + 1]
                 /\ built' = [built EXCEPT ![s] = Append(@, chunk)]
                 /\ UNCHANGED <<call, probesIssued>>
    /\ UNCHANGED <<cacheVars, now, opsStarted>>
    /\ UNCHANGED <<config, collector, chan, rx, received, batch, sent, atDrop>>

\* interval.tick().await completes; with parallel graph access the four
\* lookups are spawned, without it the chunk is built
LoopTick(s) ==
    /\ task[s].pc = "tick"
    /\ IF config.enable_parallel_graph
         THEN LET ids == ProbeVertices(task[s].i)
              IN /\ call' = [p \in DOMAIN call |->
                       IF \E j \in 1..FanOut : p = ProbeId(s, j)
                         THEN LET j == CHOOSE j \in 1..FanOut : p = ProbeId(s, j)
                              IN [IdleCall EXCEPT !.op = "get", !.pc = "start",
                                    !.vertex_id = ids[j], !.key = "embedding"]
                         ELSE call[p]]
                 /\ task' = [task EXCEPT ![s].pc = "join", ![s].nodes = ids]
                 /\ probesIssued' = [probesIssued EXCEPT ![s] = @ + FanOut]
                 /\ built' = built
         ELSE LET chunk == BuildChunk(task[s], <<>>)
              IN /\ task' = [task EXCEPT ![s].pc = "send", ![s].pending = <<chunk>>]
                 /\ built' = [built EXCEPT ![s] = Append(@, chunk)]
                 /\ UNCHANGED <<call, probesIssued>>
    /\ UNCHANGED <<cacheVars, now, opsStarted>>
    /\ UNCHANGED <<config, collector, chan, rx, received, batch, sent, atDrop>>

\* Mutant of Join: the task goes on as soon as one probe has completed.
Join_FirstCompleted(s) ==
    /\ task[s].pc = "join"
    /\ \E p \in ProbesOf(s) : call[p].pc = "done"
    /\ call' = [p \in DOMAIN call |-> IF p \in ProbesOf(s) THEN IdleCall ELSE call[p]]
    /\ LET chunk == BuildChunk(task[s], task[s].nodes)
       IN /\ task' = [task EXCEPT ![s].pc = "send", ![s].pending = <<chunk>>,
                                  ![s].nodes = <<>>]
          /\ built' = [built EXCEPT ![s] = Append(@, chunk)]
    /\ UNCHANGED <<cacheVars, now, opsStarted>>
    /\ UNCHANGED <<config, collector, chan, rx, received, batch, sent, probesIssued, atDrop>>

\* every handle.await of parallel_graph_access has returned; the chunk is built
Join(s) ==
    /\ task[s].pc = "join"
    /\ \A p \in ProbesOf(s) : call[p].pc = "done"
    /\ call' = [p \in DOMAIN call |-> IF p \in ProbesOf(s) THEN IdleCall ELSE call[p]]
    /\ LET chunk == BuildChunk(task[s], task[s].nodes)
       IN /\ task' = [task EXCEPT ![s].pc = "send", ![s].pending = <<chunk>>,
                                  ![s].nodes = <<>>]
          /\ built' = [built EXCEPT ![s] = Append(@, chunk)]
    /\ UNCHANGED <<cacheVars, now, opsStarted>>
    /\ UNCHANGED <<config, collector, chan, rx, received, batch, sent, probesIssued, atDrop>>

\* Mutant of Send: a full channel does not suspend the send.
Send_Unbounded(s) ==
    /\ task[s].pc = "send"
    /\ IF rx[s] = "open"
         THEN LET last == task[s].i + 1 = Len(task[s].chunks)
              IN /\ chan' = [chan EXCEPT ![s] = Append(@, task[s].pending[1])]
                 /\ sent' = [sent EXCEPT ![s] = Append(@, task[s].pending[1])]
                 /\ task' = [task EXCEPT ![s].pending = <<>>, ![s].i = @ + 1,
                               ![s].pc = IF last THEN "done" ELSE "tick",
                               ![s].exit = IF last THEN "completed" ELSE "running"]
         ELSE /\ task' = [task EXCEPT ![s].pending = <<>>, ![s].pc = "done",
                                      ![s].exit = "cancelled"]
              /\ UNCHANGED <<chan, sent>>
    /\ UNCHANGED <<cacheVars, call, now, opsStarted>>
    /\ UNCHANGED <<config, collector, rx, received, batch, built, probesIssued, atDrop>>

\* Mutant of Send: the error of a send on a dropped Receiver is ignored and
\* the loop goes on to the next chunk.
Send_IgnoresError(s) ==
    /\ task[s].pc = "send"
    /\ \/ rx[s] # "open"
       \/ Len(chan[s]) < ChannelCapacity
    /\ LET last == task[s].i + 1 = Len(task[s].chunks)
       IN /\ IF rx[s] = "open"
               THEN /\ chan' = [chan EXCEPT ![s] = Append(@, task[s].pending[1])]
                    /\ sent' = [sent EXCEPT ![s] = Append(@, task[s].pending[1])]
               ELSE UNCHANGED <<chan, sent>>
          /\ task' = [task EXCEPT ![s].pending = <<>>, ![s].i = @ + 1,
                        ![s].pc = IF last THEN "done" ELSE "tick",
                        ![s].exit = IF last THEN "completed" ELSE "running"]
    /\ UNCHANGED <<cacheVars, call, now, opsStarted>>
    /\ UNCHANGED <<config, collector, rx, received, batch, built, probesIssued, atDrop>>

\* tx.send(chunk).await: it places the chunk when the Receiver is open and
\* the channel has room, suspends while the channel is full, and fails when
\* the Receiver is gone, which breaks the loop
\* Mutant of Send: after the last chunk the task parks instead of returning,
\* so its Sender is never dropped.
Send_NeverReturns(s) ==
    /\ task[s].pc = "send"
    /\ IF rx[s] = "open"
         THEN LET last == task[s].i + 1 = Len(task[s].chunks)
              IN /\ Len(chan[s]) < ChannelCapacity
                 /\ chan' = [chan EXCEPT ![s] = Append(@, task[s].pending[1])]
                 /\ sent' = [sent EXCEPT ![s] = Append(@, task[s].pending[1])]
                 /\ task' = [task EXCEPT ![s].pending = <<>>, ![s].i = @ + 1,
                               ![s].pc = IF last THEN "parked" ELSE "tick"]
         ELSE /\ task' = [task EXCEPT ![s].pending = <<>>, ![s].pc = "done",
                                      ![s].exit = "cancelled"]
              /\ UNCHANGED <<chan, sent>>
    /\ UNCHANGED <<cacheVars, call, now, opsStarted>>
    /\ UNCHANGED <<config, collector, rx, received, batch, built, probesIssued, atDrop>>

Send(s) ==
    /\ task[s].pc = "send"
    /\ IF rx[s] = "open"
         THEN LET last == task[s].i + 1 = Len(task[s].chunks)
              IN /\ Len(chan[s]) < ChannelCapacity
                 /\ chan' = [chan EXCEPT ![s] = Append(@, task[s].pending[1])]
                 /\ sent' = [sent EXCEPT ![s] = Append(@, task[s].pending[1])]
                 /\ task' = [task EXCEPT ![s].pending = <<>>, ![s].i = @ + 1,
                               ![s].pc = IF last THEN "done" ELSE "tick",
                               ![s].exit = IF last THEN "completed" ELSE "running"]
         ELSE /\ task' = [task EXCEPT ![s].pending = <<>>, ![s].pc = "done",
                                      ![s].exit = "cancelled"]
              /\ UNCHANGED <<chan, sent>>
    /\ UNCHANGED <<cacheVars, call, now, opsStarted>>
    /\ UNCHANGED <<config, collector, rx, received, batch, built, probesIssued, atDrop>>

(***************************************************************************)
(* The caller's side of the channel.  The caller holds a Receiver once the *)
(* call that created it, stream_inference or stream_batch, has returned,   *)
(* and until it moves it into collect_stream.                              *)
(***************************************************************************)
\* rx.recv().await returns Some(chunk)
Recv(s) ==
    /\ rx[s] = "open"
    /\ collector[s].pc = "none"
    /\ batch = <<>>
    /\ chan[s] # <<>>
    /\ received' = [received EXCEPT ![s] = Append(@, Head(chan[s]))]
    /\ chan' = [chan EXCEPT ![s] = Tail(@)]
    /\ UNCHANGED <<cacheVars, call, now, opsStarted>>
    /\ UNCHANGED <<config, collector, task, rx, batch, sent, built, probesIssued, atDrop>>

\* rx.recv().await returns None: the channel is empty and tx is dropped
RecvNone(s) ==
    /\ rx[s] = "open"
    /\ collector[s].pc = "none"
    /\ batch = <<>>
    /\ chan[s] = <<>>
    /\ task[s].pc = "done"
    /\ rx' = [rx EXCEPT ![s] = "closed"]
    /\ UNCHANGED <<cacheVars, call, now, opsStarted>>
    /\ UNCHANGED <<config, collector, task, chan, received, batch, sent, built, probesIssued, atDrop>>

\* the Receiver is dropped; the chunks still buffered are dropped with it
DropReceiver(s) ==
    /\ rx[s] = "open"
    /\ collector[s].pc = "none"
    /\ batch = <<>>
    /\ rx' = [rx EXCEPT ![s] = "dropped"]
    /\ chan' = [chan EXCEPT ![s] = <<>>]
    /\ atDrop' = [atDrop EXCEPT ![s] = [built |-> Len(built[s]),
                     probes |-> probesIssued[s], sent |-> Len(sent[s])]]
    /\ UNCHANGED <<cacheVars, call, now, opsStarted>>
    /\ UNCHANGED <<config, collector, task, received, batch, sent, built, probesIssued>>

(***************************************************************************)
(* collect_stream.                                                         *)
(***************************************************************************)
NoCollector ==
    [pc |-> "none", fn |-> "none", text |-> <<>>,
     total_chunks |-> 0, total_graph_nodes |-> 0, total_cache_hits |-> 0,
     start_time |-> 0, end_time |-> 0, ret |-> NoRet]

\* collect_stream(rx) is called: full_content = String::new()
CollectStream(s) ==
    /\ rx[s] = "open"
    /\ batch = <<>>
    /\ collector[s].pc = "none"
    /\ collector' = [collector EXCEPT ![s] =
                       [NoCollector EXCEPT !.pc = "running", !.fn = "collect_stream"]]
    /\ UNCHANGED <<cacheVars, call, now, opsStarted>>
    /\ UNCHANGED <<config, task, chan, rx, received, batch, sent, built,
                   probesIssued, atDrop>>

\* Mutant of CollectRecv: is_final is tested before the content is pushed.
CollectRecv_BreaksBeforePush(s) ==
    /\ collector[s].pc = "running" /\ collector[s].fn = "collect_stream"
    /\ chan[s] # <<>>
    /\ LET chunk == Head(chan[s])
       IN /\ received' = [received EXCEPT ![s] = Append(@, chunk)]
          /\ IF chunk.is_final
               THEN /\ collector' = [collector EXCEPT ![s].pc = "returned"]
                    /\ rx' = [rx EXCEPT ![s] = "dropped"]
                    /\ chan' = [chan EXCEPT ![s] = <<>>]
                    /\ atDrop' = [atDrop EXCEPT ![s] = [built |-> Len(built[s]),
                                     probes |-> probesIssued[s], sent |-> Len(sent[s])]]
               ELSE /\ collector' = [collector EXCEPT ![s].text = @ \o chunk.content]
                    /\ chan' = [chan EXCEPT ![s] = Tail(@)]
                    /\ UNCHANGED <<rx, atDrop>>
    /\ UNCHANGED <<cacheVars, call, now, opsStarted>>
    /\ UNCHANGED <<config, task, batch, sent, built, probesIssued>>

\* rx.recv().await returns Some(chunk): push_str(&chunk.content); a final
\* chunk breaks the loop, collect_stream returns and rx is dropped with it
CollectRecv(s) ==
    /\ collector[s].pc = "running" /\ collector[s].fn = "collect_stream"
    /\ chan[s] # <<>>
    /\ LET chunk == Head(chan[s])
       IN /\ received' = [received EXCEPT ![s] = Append(@, chunk)]
          /\ IF chunk.is_final
               THEN /\ collector' = [collector EXCEPT ![s].pc = "returned",
                                                      ![s].text = @ \o chunk.content]
                    /\ rx' = [rx EXCEPT ![s] = "dropped"]
                    /\ chan' = [chan EXCEPT ![s] = <<>>]
                    /\ atDrop' = [atDrop EXCEPT ![s] = [built |-> Len(built[s]),
                                     probes |-> probesIssued[s], sent |-> Len(sent[s])]]
               ELSE /\ collector' = [collector EXCEPT ![s].text = @ \o chunk.content]
                    /\ chan' = [chan EXCEPT ![s] = Tail(@)]
                    /\ UNCHANGED <<rx, atDrop>>
    /\ UNCHANGED <<cacheVars, call, now, opsStarted>>
    /\ UNCHANGED <<config, task, batch, sent, built, probesIssued>>

\* rx.recv().await returns None: the loop ends and collect_stream returns
CollectNone(s) ==
    /\ collector[s].pc = "running" /\ collector[s].fn = "collect_stream"
    /\ chan[s] = <<>>
    /\ task[s].pc = "done"
    /\ collector' = [collector EXCEPT ![s].pc = "returned"]
    /\ rx' = [rx EXCEPT ![s] = "closed"]
    /\ UNCHANGED <<cacheVars, call, now, opsStarted>>
    /\ UNCHANGED <<config, task, chan, received, batch, sent, built,
                   probesIssued, atDrop>>

(***************************************************************************)
(* get_stream_stats.  The timestamps are those of the wall clock, which    *)
(* the model only moves forward.                                           *)
(***************************************************************************)
\* get_stream_stats(rx) is called: the five accumulators are 0
GetStreamStats(s) ==
    /\ rx[s] = "open"
    /\ batch = <<>>
    /\ collector[s].pc = "none"
    /\ collector' = [collector EXCEPT ![s] =
                       [NoCollector EXCEPT !.pc = "running", !.fn = "get_stream_stats"]]
    /\ UNCHANGED <<cacheVars, call, now, opsStarted>>
    /\ UNCHANGED <<config, task, chan, rx, received, batch, sent, built,
                   probesIssued, atDrop>>

\* Ok(StreamStats { .. }) of the accumulators c
StreamStats(c) ==
    [total_chunks |-> c.total_chunks,
     total_graph_nodes |-> c.total_graph_nodes,
     total_cache_hits |-> c.total_cache_hits,
     duration_ms |-> c.end_time - c.start_time,
     avg_chunk_time_ms |-> IF c.total_chunks > 0
                             THEN (c.end_time - c.start_time) \div c.total_chunks
                             ELSE 0]

\* Mutant of Accumulate: start_time is set on every chunk.
Accumulate_RestartsClock(c, chunk) ==
    [c EXCEPT !.start_time = chunk.metadata.timestamp_ms,
              !.total_chunks = @ + 1,
              !.total_graph_nodes = @ + Len(chunk.metadata.graph_nodes_accessed),
              !.total_cache_hits = @ + chunk.metadata.cache_hits,
              !.end_time = chunk.metadata.timestamp_ms]

\* the accumulators c after the body of the loop has run on chunk
Accumulate(c, chunk) ==
    [c EXCEPT !.start_time = IF c.total_chunks = 0
                               THEN chunk.metadata.timestamp_ms ELSE @,
              !.total_chunks = @ + 1,
              !.total_graph_nodes = @ + Len(chunk.metadata.graph_nodes_accessed),
              !.total_cache_hits = @ + chunk.metadata.cache_hits,
              !.end_time = chunk.metadata.timestamp_ms]

\* rx.recv().await returns Some(chunk): the accumulators are updated; a
\* final chunk breaks the loop, the statistics are returned and rx is dropped
StatsRecv(s) ==
    /\ collector[s].pc = "running" /\ collector[s].fn = "get_stream_stats"
    /\ chan[s] # <<>>
    /\ LET chunk == Head(chan[s])
           acc == Accumulate(collector[s], chunk)
       IN /\ received' = [received EXCEPT ![s] = Append(@, chunk)]
          /\ IF chunk.is_final
               THEN /\ collector' = [collector EXCEPT ![s] =
                                       [acc EXCEPT !.pc = "returned",
                                                   !.ret = StreamStats(acc)]]
                    /\ rx' = [rx EXCEPT ![s] = "dropped"]
                    /\ chan' = [chan EXCEPT ![s] = <<>>]
                    /\ atDrop' = [atDrop EXCEPT ![s] = [built |-> Len(built[s]),
                                     probes |-> probesIssued[s], sent |-> Len(sent[s])]]
               ELSE /\ collector' = [collector EXCEPT ![s] = acc]
                    /\ chan' = [chan EXCEPT ![s] = Tail(@)]
                    /\ UNCHANGED <<rx, atDrop>>
    /\ UNCHANGED <<cacheVars, call, now, opsStarted>>
    /\ UNCHANGED <<config, task, batch, sent, built, probesIssued>>

\* rx.recv().await returns None: the loop ends, the statistics are returned
StatsNone(s) ==
    /\ collector[s].pc = "running" /\ collector[s].fn = "get_stream_stats"
    /\ chan[s] = <<>>
    /\ task[s].pc = "done"
    /\ collector' = [collector EXCEPT ![s].pc = "returned",
                                      ![s].ret = StreamStats(collector[s])]
    /\ rx' = [rx EXCEPT ![s] = "closed"]
    /\ UNCHANGED <<cacheVars, call, now, opsStarted>>
    /\ UNCHANGED <<config, task, chan, received, batch, sent, built,
                   probesIssued, atDrop>>

\* a spawned cache.get(&vertex_id, "embedding") is granted cache.write()
ProbeLockCache(p) == GetLockCache(p)

\* ... and runs to its return
ProbeFinish(p) == GetFinish(p)

(***************************************************************************)
(* The cache under concurrent client calls.                                *)
(***************************************************************************)
\* VertexCentricCache::new(max_entries)
NewCache ==
    /\ cache = <<>>
    /\ vertex_index = <<>>
    /\ hits = 0
    /\ misses = 0
    /\ locks = [l \in {"cache", "vertex_index", "hits", "misses"} |-> FreeLock]
    /\ now = 0
    /\ opsStarted = 0
    /\ lastPut = [pr \in Pairs |-> None]
    /\ getsDone = 0
    /\ putsDone = [v \in Vertices |-> 0]

\* StreamingInference::new(config, reasoning, cache), and the streams S that
\* will be asked for
NewStreaming(S) ==
    /\ task = [s \in S |-> NewTask]
    /\ chan = [s \in S |-> <<>>]
    /\ rx = [s \in S |-> "none"]
    /\ received = [s \in S |-> <<>>]
    /\ sent = [s \in S |-> <<>>]
    /\ built = [s \in S |-> <<>>]
    /\ probesIssued = [s \in S |-> 0]
    /\ atDrop = [s \in S |-> [built |-> 0, probes |-> 0, sent |-> 0]]
    /\ collector = [s \in S |-> NoCollector]
    /\ batch = <<>>

InitCache ==
    /\ NewCache
    /\ max_entries \in 0..MaxCap
    /\ call = [p \in Clients |-> IdleCall]
    /\ config = [chunk_size |-> 1, enable_parallel_graph |-> FALSE]
    /\ NewStreaming({})

NextCache ==
    \/ \E p \in Clients, v \in Vertices, k \in Keys, val \in Values, cost \in Costs :
          PutLockCache(p, v, k, val, cost)
    \/ \E p \in Clients : PutEvict(p)
    \/ \E p \in Clients : PutInsert(p)
    \/ \E p \in Clients : PutIndex(p)
    \/ \E p \in Clients, v \in Vertices, k \in Keys : ClientGet(p, v, k)
    \/ \E p \in Clients : GetFinish(p)
    \/ \E p \in Clients, v \in Vertices : GveLockIndex(p, v)
    \/ \E p \in Clients : GveRead(p)
    \/ \E p \in Clients, ids \in PrefetchLists : PrefetchCall(p, ids)
    \/ \E p \in Clients : PrefetchLockIndex(p)
    \/ \E p \in Clients : PrefetchRead(p)
    \/ \E p \in Clients, v \in Vertices : InvLockIndex(p, v)
    \/ \E p \in Clients : InvRun(p)
    \/ \E p \in Clients : StatsLockCache(p)
    \/ \E p \in Clients : StatsReadHits(p)
    \/ \E p \in Clients : StatsFinish(p)
    \/ \E p \in Clients : ClearLockCache(p)
    \/ \E p \in Clients : ClearLockIndex(p)
    \/ \E p \in Clients : ClearTables(p)
    \/ \E p \in Clients : ClearRun(p)
    \/ TickSecond

SpecCache == InitCache /\ [][NextCache]_vars

(***************************************************************************)
(* The writers of the main table (put, get, invalidate_vertex, clear)      *)
(* under concurrent client calls.                                          *)
(***************************************************************************)
NextEvict ==
    \/ \E p \in Clients, v \in Vertices, k \in Keys, val \in OneValue, cost \in Costs :
          PutLockCache(p, v, k, val, cost)
    \/ \E p \in Clients : PutEvict(p)
    \/ \E p \in Clients : PutInsert(p)
    \/ \E p \in Clients : PutIndex(p)
    \/ \E p \in Clients, v \in Vertices, k \in Keys : ClientGet(p, v, k)
    \/ \E p \in Clients : GetFinish(p)
    \/ \E p \in Clients, v \in Vertices : InvLockIndex(p, v)
    \/ \E p \in Clients : InvRun(p)
    \/ \E p \in Clients : ClearLockCache(p)
    \/ \E p \in Clients : ClearLockIndex(p)
    \/ \E p \in Clients : ClearTables(p)
    \/ \E p \in Clients : ClearRun(p)
    \/ TickSecond

SpecEvict == InitCache /\ [][NextEvict]_vars

(***************************************************************************)
(* Every operation of the cache, under concurrent client calls, on the two *)
(* keys of one vertex and a cache of at least one entry.                   *)
(***************************************************************************)
InitOps ==
    /\ NewCache
    /\ max_entries \in 1..MaxCap
    /\ call = [p \in Clients |-> IdleCall]
    /\ config = [chunk_size |-> 1, enable_parallel_graph |-> FALSE]
    /\ NewStreaming({})

NextOps ==
    \/ \E p \in Clients, k \in Keys, val \in OneValue, cost \in Costs :
          PutLockCache(p, "a", k, val, cost)
    \/ \E p \in Clients : PutEvict(p)
    \/ \E p \in Clients : PutInsert(p)
    \/ \E p \in Clients : PutIndex(p)
    \/ \E p \in Clients, k \in Keys : ClientGet(p, "a", k)
    \/ \E p \in Clients : GetFinish(p)
    \/ \E p \in Clients : GveLockIndex(p, "a")
    \/ \E p \in Clients : GveRead(p)
    \/ \E p \in Clients : PrefetchCall(p, <<"a", "a">>)
    \/ \E p \in Clients : PrefetchLockIndex(p)
    \/ \E p \in Clients : PrefetchRead(p)
    \/ \E p \in Clients : InvLockIndex(p, "a")
    \/ \E p \in Clients : InvRun(p)
    \/ \E p \in Clients : StatsLockCache(p)
    \/ \E p \in Clients : StatsReadHits(p)
    \/ \E p \in Clients : StatsFinish(p)
    \/ \E p \in Clients : ClearLockCache(p)
    \/ \E p \in Clients : ClearLockIndex(p)
    \/ \E p \in Clients : ClearTables(p)
    \/ \E p \in Clients : ClearRun(p)

SpecOps == InitOps /\ [][NextOps]_vars

(***************************************************************************)
(* Lock waits.  Needs(p) is the set of <<lock, mode>> the next step of p   *)
(* must be granted; BlockedBy(p, q) holds when q holds one of them in a    *)
(* conflicting mode.                                                       *)
(***************************************************************************)
Needs(p) ==
    LET c == call[p] IN
    CASE c.op = "put" /\ c.pc = "inserted" -> {<<"vertex_index", "w">>}
      [] c.op = "get" /\ c.pc = "start" -> {<<"cache", "w">>}
      [] c.op = "get" /\ c.pc = "cache_locked" ->
            IF make_cache_key(c.vertex_id, c.key) \in DOMAIN cache
              THEN {<<"hits", "w">>} ELSE {<<"misses", "w">>}
      [] c.op = "get_vertex_entries" /\ c.pc = "index_locked" -> {<<"cache", "r">>}
      [] c.op = "prefetch" /\ c.pc = "loop" -> {<<"vertex_index", "r">>}
      [] c.op = "prefetch" /\ c.pc = "index_locked" -> {<<"cache", "r">>}
      [] c.op = "invalidate_vertex" /\ c.pc = "index_locked" -> {<<"cache", "w">>}
      [] c.op = "get_stats" /\ c.pc = "cache_locked" -> {<<"hits", "r">>}
      [] c.op = "get_stats" /\ c.pc = "hits_read" -> {<<"misses", "r">>}
      [] c.op = "clear" /\ c.pc = "cache_locked" -> {<<"vertex_index", "w">>}
      [] c.op = "clear" /\ c.pc = "index_locked" -> {<<"hits", "w">>, <<"misses", "w">>}
      [] OTHER -> {}

BlockedBy(p, q) ==
    \E n \in Needs(p) :
        \/ q \in locks[n[1]].w
        \/ n[2] = "w" /\ q \in locks[n[1]].r

\* A set of callers each of which waits for a lock held by another of the set.
Deadlocked(S) == S # {} /\ \A p \in S : \E q \in S \ {p} : BlockedBy(p, q)

DanglingIndexKey ==
    \E v \in DOMAIN vertex_index : \E i \in 1..Len(vertex_index[v]) :
        vertex_index[v][i] \notin DOMAIN cache

(***************************************************************************)
(* C1.  After any sequence of puts on one (vertex_id, key), a get on that  *)
(* pair issued before the entry is evicted, invalidated or cleared returns *)
(* the value of the last of those puts.  Every step that completes a get   *)
(* on a pair with a recorded last put returns that value.                  *)
(***************************************************************************)
C1_GetReturnsLastPut ==
    [][\A p \in Clients :
          (call[p].op = "get" /\ call[p].pc = "cache_locked" /\ call'[p].pc = "done")
          => LET pr == <<call[p].vertex_id, call[p].key>>
             IN lastPut[pr] # None => call'[p].ret = lastPut[pr]]_vars

(***************************************************************************)
(* C4.  For max_entries >= 1 the main table never holds more than          *)
(* max_entries entries, under any interleaving of put, get,                *)
(* invalidate_vertex and clear of concurrent callers.                      *)
(***************************************************************************)
C4_CapacityBound ==
    max_entries >= 1 => Cardinality(DOMAIN cache) <= max_entries

\* A put has inserted into a table that is full, after an eviction.
C4_Witness ==
    /\ max_entries >= 1
    /\ Cardinality(DOMAIN cache) = max_entries
    /\ DanglingIndexKey
    /\ \E p \in Clients : call[p].op = "put" /\ call[p].pc = "inserted"

(***************************************************************************)
(* C5.  Whenever put finds the table at or above max_entries it removes    *)
(* exactly one entry, of minimal last-access time among the entries        *)
(* present; below max_entries it removes none.                             *)
(***************************************************************************)
EvictStep(p) ==
    call[p].op = "put" /\ call[p].pc = "cache_locked" /\ call'[p].pc = "checked"

RemovesOneLru ==
    \E k \in DOMAIN cache :
        /\ cache' = Remove(cache, {k})
        /\ \A j \in DOMAIN cache : cache[k].timestamp <= cache[j].timestamp

\* C5 as stated: a put that finds the table at or above max_entries removes
\* exactly one entry, of minimal last-access time, before inserting; a put
\* that finds it below max_entries removes none.
C5_EvictsOneLruAtCapacity ==
    [][\A p \in Clients : EvictStep(p) =>
          IF Cardinality(DOMAIN cache) >= max_entries
            THEN RemovesOneLru ELSE cache' = cache]_vars

\* C5 as amended: exactly one entry of minimal last-access time is removed
\* when the table is at or above max_entries and not empty; no entry is
\* removed when it is below max_entries or empty (max_entries = 0).
C5_EvictsOneLruWhenNonEmpty ==
    [][\A p \in Clients : EvictStep(p) =>
          IF Cardinality(DOMAIN cache) >= max_entries /\ DOMAIN cache # {}
            THEN RemovesOneLru ELSE cache' = cache]_vars

\* A put has evicted from a table of two entries and kept the younger one.
C5_Witness ==
    /\ max_entries = 2
    /\ Cardinality(DOMAIN cache) = 1
    /\ DanglingIndexKey
    /\ \A k \in DOMAIN cache : cache[k].timestamp >= 1
    /\ \E p \in Clients : call[p].op = "put" /\ call[p].pc = "checked"

(***************************************************************************)
(* C6.  No reachable state has a set of cache operations each holding a    *)
(* lock while waiting for a lock held by another of the set, so every      *)
(* operation that has started can complete.                                *)
(***************************************************************************)
C6_NoLockCycle ==
    \A S \in SUBSET (DOMAIN call) : ~Deadlocked(S)

(***************************************************************************)
(* Specifications of the streaming engine.                                 *)
(***************************************************************************)
AllProbes(S) == {ProbeId(st, j) : st \in S, j \in 1..FanOut}

\* the steps of the background task of stream s and of the lookups it spawned
TaskStep(s) ==
    \/ ReasonFails(s)
    \/ \E answer \in Answers : ReasonOk(s, answer)
    \/ LoopTick(s)
    \/ \E p \in ProbesOf(s) : ProbeLockCache(p)
    \/ \E p \in ProbesOf(s) : ProbeFinish(p)
    \/ Join(s)
    \/ Send(s)

(***************************************************************************)
(* One stream, every answer of up to MaxLen bytes, every chunk size up to  *)
(* MaxChunkSize, with and without parallel graph access; the cache is      *)
(* touched by the probes only.                                             *)
(***************************************************************************)
InitStream ==
    /\ NewCache
    /\ max_entries = MaxCap
    /\ config \in [chunk_size : 1..MaxChunkSize, enable_parallel_graph : BOOLEAN]
    /\ NewStreaming({"s1"})
    /\ call = [p \in AllProbes({"s1"}) |-> IdleCall]

NextStream ==
    \/ \E s \in Streams : StreamInference(s)
    \/ \E s \in Streams : ReasonFails(s)
    \/ \E s \in Streams, answer \in Answers : ReasonOk(s, answer)
    \/ \E s \in Streams : LoopTick(s)
    \/ \E s \in Streams : \E p \in ProbesOf(s) : ProbeLockCache(p)
    \/ \E s \in Streams : \E p \in ProbesOf(s) : ProbeFinish(p)
    \/ \E s \in Streams : Join(s)
    \/ \E s \in Streams : Send(s)
    \/ \E s \in Streams : Recv(s)
    \/ \E s \in Streams : RecvNone(s)
    \/ \E s \in Streams : DropReceiver(s)

SpecStream == InitStream /\ [][NextStream]_vars

(***************************************************************************)
(* Two streams, started one by one or by stream_batch, running             *)
(* concurrently over the same cache; the Reasoner fails, or answers with   *)
(* an empty text or a text of two bytes.                                   *)
(***************************************************************************)
BatchAnswers == {<<>>, <<"a", "a">>}

InitBatch ==
    /\ NewCache
    /\ max_entries = MaxCap
    /\ config \in [chunk_size : 1..MaxChunkSize, enable_parallel_graph : BOOLEAN]
    /\ NewStreaming({"s1", "s2"})
    /\ call = [p \in AllProbes({"s1", "s2"}) |-> IdleCall]

NextBatch ==
    \/ \E s \in Streams : StreamInference(s)
    \/ \E q \in Queries(Streams) : StreamBatch(q)
    \/ BatchNext
    \/ \E s \in Streams : ReasonFails(s)
    \/ \E s \in Streams, answer \in BatchAnswers : ReasonOk(s, answer)
    \/ \E s \in Streams : LoopTick(s)
    \/ \E s \in Streams : \E p \in ProbesOf(s) : ProbeLockCache(p)
    \/ \E s \in Streams : \E p \in ProbesOf(s) : ProbeFinish(p)
    \/ \E s \in Streams : Join(s)
    \/ \E s \in Streams : Send(s)
    \/ \E s \in Streams : Recv(s)
    \/ \E s \in Streams : RecvNone(s)
    \/ \E s \in Streams : DropReceiver(s)

SpecBatch == InitBatch /\ [][NextBatch]_vars

(***************************************************************************)
(* One stream of FloodLen one-byte chunks, more than the channel holds,    *)
(* without parallel graph access.                                          *)
(***************************************************************************)
InitFlood ==
    /\ NewCache
    /\ max_entries = MaxCap
    /\ config = [chunk_size |-> 1, enable_parallel_graph |-> FALSE]
    /\ NewStreaming({"s1"})
    /\ call = [p \in {} |-> IdleCall]

NextFlood ==
    \/ \E s \in Streams : StreamInference(s)
    \/ \E s \in Streams, answer \in FloodAnswers : ReasonOk(s, answer)
    \/ \E s \in Streams : LoopTick(s)
    \/ \E s \in Streams : Send(s)
    \/ \E s \in Streams : Recv(s)
    \/ \E s \in Streams : RecvNone(s)
    \/ \E s \in Streams : DropReceiver(s)

SpecFlood == InitFlood /\ [][NextFlood]_vars

(***************************************************************************)
(* One stream with parallel graph access while two clients call put and    *)
(* invalidate_vertex on the same cache.  The tokio scheduler runs every    *)
(* task that is ready: each background task, each spawned lookup and each  *)
(* call that has started keeps taking its steps (weak fairness).           *)
(***************************************************************************)
MixedStreams == {"s1"}
MixedAnswers == {<<"a">>}

InitMixed ==
    /\ NewCache
    /\ max_entries = MaxCap
    /\ config = [chunk_size |-> 1, enable_parallel_graph |-> TRUE]
    /\ NewStreaming(MixedStreams)
    /\ call = [p \in AllProbes(MixedStreams) \cup Clients |-> IdleCall]

\* the steps of a client call that has started
CallStep(p) ==
    \/ PutEvict(p)
    \/ PutInsert(p)
    \/ PutIndex(p)
    \/ InvRun(p)

NextMixed ==
    \/ \E s \in Streams : StreamInference(s)
    \/ \E s \in Streams, answer \in MixedAnswers : ReasonOk(s, answer)
    \/ \E s \in Streams : LoopTick(s)
    \/ \E s \in Streams : \E p \in ProbesOf(s) : ProbeLockCache(p)
    \/ \E s \in Streams : \E p \in ProbesOf(s) : ProbeFinish(p)
    \/ \E s \in Streams : Join(s)
    \/ \E s \in Streams : Send(s)
    \/ \E s \in Streams : Recv(s)
    \/ \E s \in Streams : RecvNone(s)
    \/ \E s \in Streams : DropReceiver(s)
    \/ \E p \in Clients, val \in OneValue, cost \in Costs :
          PutLockCache(p, "a", "c", val, cost)
    \/ \E p \in Clients : PutEvict(p)
    \/ \E p \in Clients : PutInsert(p)
    \/ \E p \in Clients : PutIndex(p)
    \/ \E p \in Clients : InvLockIndex(p, "a")
    \/ \E p \in Clients : InvRun(p)

SpecMixed ==
    /\ InitMixed
    /\ [][NextMixed]_vars
    /\ \A s \in MixedStreams : WF_vars(TaskStep(s))
    /\ \A p \in AllProbes(MixedStreams) : WF_vars(ProbeLockCache(p) \/ ProbeFinish(p))
    /\ \A p \in Clients : WF_vars(CallStep(p))

(***************************************************************************)
(* One stream whose Receiver is handed to collect_stream.                  *)
(***************************************************************************)
NextCollect ==
    \/ \E s \in Streams : StreamInference(s)
    \/ \E s \in Streams : ReasonFails(s)
    \/ \E s \in Streams, answer \in Answers : ReasonOk(s, answer)
    \/ \E s \in Streams : LoopTick(s)
    \/ \E s \in Streams : \E p \in ProbesOf(s) : ProbeLockCache(p)
    \/ \E s \in Streams : \E p \in ProbesOf(s) : ProbeFinish(p)
    \/ \E s \in Streams : Join(s)
    \/ \E s \in Streams : Send(s)
    \/ \E s \in Streams : CollectStream(s)
    \/ \E s \in Streams : CollectRecv(s)
    \/ \E s \in Streams : CollectNone(s)

SpecCollect == InitStream /\ [][NextCollect]_vars

(***************************************************************************)
(* Two streams with parallel graph access over a cache that clients warm   *)
(* with the entry the probes of chunk 0 look up, while the wall clock      *)
(* advances: the probes hit as well as miss.  The chunks stay in the       *)
(* channel, which never fills.                                             *)
(***************************************************************************)
WarmStreams == {"s1", "s2"}

WarmVertices == {ProbeVertex(0, 0)}

InitWarm ==
    /\ cache = <<>>
    /\ vertex_index = <<>>
    /\ hits = 0
    /\ misses = 0
    /\ locks = [l \in {"cache", "vertex_index", "hits", "misses"} |-> FreeLock]
    /\ now = 0
    /\ opsStarted = 0
    /\ lastPut = [pr \in WarmVertices \X {"embedding"} |-> None]
    /\ getsDone = 0
    /\ putsDone = [v \in WarmVertices |-> 0]
    /\ max_entries = MaxCap
    /\ config = [chunk_size |-> 1, enable_parallel_graph |-> TRUE]
    /\ NewStreaming(WarmStreams)
    /\ call = [p \in AllProbes(WarmStreams) \cup Clients |-> IdleCall]

NextWarm ==
    \/ \E s \in Streams : StreamInference(s)
    \/ \E s \in Streams, answer \in MixedAnswers : ReasonOk(s, answer)
    \/ \E s \in Streams : LoopTick(s)
    \/ \E s \in Streams : \E p \in ProbesOf(s) : ProbeLockCache(p)
    \/ \E s \in Streams : \E p \in ProbesOf(s) : ProbeFinish(p)
    \/ \E s \in Streams : Join(s)
    \/ \E s \in Streams : Send(s)
    \/ \E p \in Clients, v \in WarmVertices, val \in OneValue, cost \in Costs :
          PutLockCache(p, v, "embedding", val, cost)
    \/ \E p \in Clients : PutEvict(p)
    \/ \E p \in Clients : PutInsert(p)
    \/ \E p \in Clients : PutIndex(p)
    \/ TickSecond

SpecWarm == InitWarm /\ [][NextWarm]_vars

(***************************************************************************)
(* One stream whose caller keeps the Receiver and keeps receiving, as the  *)
(* loop of test_streaming_inference does, under a fair scheduler: the      *)
(* runtime keeps polling the spawned task and its probes, and the caller   *)
(* keeps awaiting recv.                                                    *)
(***************************************************************************)
LiveStreams == {"s1"}

NextLive ==
    \/ \E s \in Streams : StreamInference(s)
    \/ \E s \in Streams : ReasonFails(s)
    \/ \E s \in Streams, answer \in Answers : ReasonOk(s, answer)
    \/ \E s \in Streams : LoopTick(s)
    \/ \E s \in Streams : \E p \in ProbesOf(s) : ProbeLockCache(p)
    \/ \E s \in Streams : \E p \in ProbesOf(s) : ProbeFinish(p)
    \/ \E s \in Streams : Join(s)
    \/ \E s \in Streams : Send(s)
    \/ \E s \in Streams : Recv(s)
    \/ \E s \in Streams : RecvNone(s)

SpecLive ==
    /\ InitStream
    /\ [][NextLive]_vars
    /\ \A s \in LiveStreams : WF_vars(TaskStep(s))
    /\ \A p \in AllProbes(LiveStreams) : WF_vars(ProbeLockCache(p) \/ ProbeFinish(p))
    /\ \A s \in LiveStreams : WF_vars(Recv(s) \/ RecvNone(s))

(***************************************************************************)
(* One stream whose Receiver is handed to get_stream_stats, while the wall *)
(* clock advances.                                                         *)
(***************************************************************************)
NextStats ==
    \/ \E s \in Streams : StreamInference(s)
    \/ \E s \in Streams : ReasonFails(s)
    \/ \E s \in Streams, answer \in Answers : ReasonOk(s, answer)
    \/ \E s \in Streams : LoopTick(s)
    \/ \E s \in Streams : \E p \in ProbesOf(s) : ProbeLockCache(p)
    \/ \E s \in Streams : \E p \in ProbesOf(s) : ProbeFinish(p)
    \/ \E s \in Streams : Join(s)
    \/ \E s \in Streams : Send(s)
    \/ \E s \in Streams : GetStreamStats(s)
    \/ \E s \in Streams : StatsRecv(s)
    \/ \E s \in Streams : StatsNone(s)
    \/ TickSecond

SpecStats == InitStream /\ [][NextStats]_vars

(***************************************************************************)
(* Claims about the streaming engine.                                      *)
(***************************************************************************)
ChunkIds(q) == [i \in 1..Len(q) |-> q[i].chunk_id]
StrictlyIncreasing(q) == \A i \in 1..(Len(q) - 1) : q[i] < q[i + 1]
CeilDiv(n, d) == (n + d - 1) \div d

\* C2: on every stream, whether started by stream_inference or by
\* stream_batch and whatever runs beside it, the chunks are placed on the
\* channel and received in strictly increasing chunk_id order, the channel
\* hands them over in the order they were placed, and no chunk is placed
\* after the chunk whose is_final is true.
C2_OrderedChunks ==
    \A s \in Streams :
        /\ StrictlyIncreasing(ChunkIds(sent[s]))
        /\ StrictlyIncreasing(ChunkIds(received[s]))
        /\ rx[s] # "dropped" => sent[s] = received[s] \o chan[s]
        /\ \A i \in 1..(Len(sent[s]) - 1) : ~sent[s][i].is_final

\* two streams with parallel graph access have both been received in full,
\* two chunks each
C2_Witness ==
    /\ config.enable_parallel_graph
    /\ \A s \in Streams :
          /\ rx[s] = "closed"
          /\ Len(received[s]) = 2
          /\ received[s][2].is_final

\* C3: a task that ran to completion with its receiver alive has placed
\* exactly ceil(L / chunk_size) chunks for an answer of L bytes, with
\* chunk_id 0, 1, ..., n-1 in this order and is_final true on the last
\* chunk only.
C3_ChunkCount ==
    \A s \in Streams :
        (task[s].exit = "completed" /\ rx[s] # "dropped")
        => LET n == CeilDiv(Len(task[s].answer), config.chunk_size)
           IN /\ Len(sent[s]) = n
              /\ \A i \in 1..n : /\ sent[s][i].chunk_id = i - 1
                                 /\ sent[s][i].is_final = (i = n)

\* an answer of three bytes in chunks of two bytes was streamed to its end
C3_Witness ==
    \E s \in Streams :
        /\ task[s].exit = "completed"
        /\ rx[s] = "closed"
        /\ Len(task[s].answer) = 3
        /\ config.chunk_size = 2
        /\ Len(received[s]) = 2

\* C7: the channel never holds more than ChannelCapacity chunks; a send
\* with the receiver alive can complete exactly when the channel holds fewer
\* than ChannelCapacity chunks, so that the task is suspended while it is
\* full; and no chunk is lost: every chunk built is placed or still held by
\* the suspended send, every chunk placed is received or still buffered.
C7_Backpressure ==
    \A s \in Streams :
        /\ Len(chan[s]) <= ChannelCapacity
        /\ (task[s].pc = "send" /\ rx[s] = "open")
           => (ENABLED Send(s) <=> Len(chan[s]) < ChannelCapacity)
        /\ rx[s] \in {"open", "closed"}
           => /\ built[s] = sent[s] \o task[s].pending
              /\ sent[s] = received[s] \o chan[s]

\* the channel is full again, the task is suspended in its send with a chunk
\* in hand, after the consumer had made room for earlier sends
C7_Witness ==
    \E s \in Streams :
        /\ Len(chan[s]) = ChannelCapacity
        /\ task[s].pc = "send"
        /\ task[s].pending # <<>>
        /\ rx[s] = "open"
        /\ Len(received[s]) >= 1

\* C8, as stated: from the moment the receiver is dropped the task slices
\* nothing, issues no further probe and builds no further chunk.
C8_NoWorkAfterDrop ==
    [][\A s \in Streams :
          rx[s] = "dropped"
          => /\ task'[s].chunks = task[s].chunks
             /\ probesIssued'[s] = probesIssued[s]
             /\ built'[s] = built[s]]_vars

\* C8, amended: once a send has failed on the dropped receiver the task and
\* its probes take no further step; between the drop and that failed send
\* the task issues at most the FanOut probes of one chunk and builds at most
\* one chunk.
C8_StopsAtFailedSend ==
    \A s \in Streams :
        /\ task[s].exit = "cancelled"
           => /\ rx[s] = "dropped"
              /\ ~ENABLED TaskStep(s)
        /\ rx[s] = "dropped"
           => /\ Len(built[s]) <= atDrop[s].built + 1
              /\ probesIssued[s] <= atDrop[s].probes + FanOut

\* the receiver was dropped while the task waited for its tick: the task
\* issued the probes of one more chunk, built it, and stopped at the send
\* with chunks left
C8_Witness ==
    \E s \in Streams :
        /\ rx[s] = "dropped"
        /\ task[s].exit = "cancelled"
        /\ Len(built[s]) = atDrop[s].built + 1
        /\ probesIssued[s] = atDrop[s].probes + FanOut
        /\ Len(built[s]) < Len(task[s].chunks)

\* C9: when the caller drops the receiver the background task eventually
\* terminates; no send succeeds after the drop; and the task and its probes
\* perform no put, invalidate_vertex or clear.
C9_DropTerminatesCleanly ==
    /\ \A s \in MixedStreams : (rx[s] = "dropped") ~> (task[s].pc = "done")
    /\ [](\A s \in MixedStreams :
             /\ rx[s] = "dropped" => Len(sent[s]) = atDrop[s].sent
             /\ \A p \in ProbesOf(s) : call[p].op \in {"idle", "get"})

\* what the holder of the Receiver of stream s has seen once recv has
\* returned None: the chunks, and nothing else
Observed(s) == [chunks |-> received[s], ended |-> rx[s] = "closed"]

\* C10: a stream whose Reasoner failed is distinguishable, for the holder of
\* the Receiver, from the stream of an empty answer.
C10_FailureDistinguishable ==
    \A s, t \in Streams :
        (/\ task[s].exit = "failed"
         /\ task[t].exit = "completed" /\ task[t].answer = <<>>
         /\ rx[s] = "closed" /\ rx[t] = "closed")
        => Observed(s) # Observed(t)

\* C11: a task whose Reasoner call failed has terminated, has placed no
\* chunk on the channel, has built none and has issued no cache probe, and it
\* takes no further step; its channel is closed: a receive of the consumer
\* returns end-of-stream, never a chunk.
C11_FailureSendsNothing ==
    \A s \in Streams :
        task[s].exit = "failed"
        => /\ task[s].pc = "done"
           /\ sent[s] = <<>> /\ built[s] = <<>> /\ chan[s] = <<>>
           /\ received[s] = <<>>
           /\ probesIssued[s] = 0
           /\ \A p \in ProbesOf(s) : call[p] = IdleCall
           /\ ~ENABLED TaskStep(s)
           /\ ~ENABLED Recv(s)
           /\ rx[s] = "open" => ENABLED RecvNone(s)

\* the Reasoner failed with parallel graph access enabled and the consumer
\* has seen the end of the stream
C11_Witness ==
    \E s \in Streams :
        /\ task[s].exit = "failed"
        /\ rx[s] = "closed"
        /\ config.enable_parallel_graph

(***************************************************************************)
(* Claims about get, invalidate_vertex, clear, get_vertex_entries and the  *)
(* statistics.                                                             *)
(***************************************************************************)
\* the step in which the get of caller p returns
GetReturns(p) ==
    call[p].op = "get" /\ call[p].pc = "cache_locked" /\ call'[p].pc = "done"

\* C12: a get changes exactly one of the two counters, by exactly 1.  On a
\* hit it increments hits and the entry's access_count, sets the entry's
\* last-access time to the current time and returns the stored value; on a
\* miss it increments misses, returns nothing and changes no entry.  The
\* keys of the main table, every stored value and the vertex index are
\* unchanged in both cases.
C12_GetCountsOnce ==
    [][\A p \in DOMAIN call : GetReturns(p) =>
          LET ck == make_cache_key(call[p].vertex_id, call[p].key)
              hit == ck \in DOMAIN cache
          IN /\ hits' + misses' = hits + misses + 1
             /\ hits' = IF hit THEN hits + 1 ELSE hits
             /\ DOMAIN cache' = DOMAIN cache
             /\ \A k \in DOMAIN cache :
                   /\ cache'[k].value = cache[k].value
                   /\ k # ck => cache'[k] = cache[k]
             /\ vertex_index' = vertex_index
             /\ hit => /\ cache'[ck].access_count = cache[ck].access_count + 1
                        /\ cache'[ck].timestamp = now \div MsPerSec
                        /\ call'[p].ret = Some(cache[ck].value)
             /\ ~hit => /\ cache' = cache
                         /\ call'[p].ret = None]_vars

\* one get has hit an entry a second after it was put, one get has missed
C12_Witness ==
    /\ hits = 1
    /\ misses = 1
    /\ \E k \in DOMAIN cache : cache[k].access_count = 2 /\ cache[k].timestamp = 1
    /\ \A p \in Clients : call[p].op = "get" /\ call[p].pc = "done"

\* the step in which the invalidate_vertex of caller p returns
InvalidateReturns(p) ==
    /\ call[p].op = "invalidate_vertex"
    /\ call[p].pc = "index_locked" /\ call'[p].pc = "done"

\* C13: when invalidate_vertex(v) returns, whatever puts, gets, evictions
\* and overwrites came before it, get_vertex_entries(v) has nothing to
\* return and no composite key of v is left in the main table, so that a
\* get(v, k) that comes next misses for every key k.
C13_InvalidateRemovesVertex ==
    [][\A p \in DOMAIN call : InvalidateReturns(p) =>
          LET v == call[p].vertex_id
          IN /\ VertexEntries(cache', vertex_index', v) = <<>>
             /\ \A k \in Keys : make_cache_key(v, k) \notin DOMAIN cache']_vars

\* caller q holds a guard of one of the four locks
HoldsGuard(q) == \E l \in DOMAIN locks : q \in locks[l].w \cup locks[l].r

\* a step of a get, get_vertex_entries or get_stats call of caller q
ObserverStep(q) ==
    \/ \E v \in Vertices, k \in Keys : ClientGet(q, v, k)
    \/ GetLockCache(q)
    \/ GetFinish(q)
    \/ \E v \in Vertices : GveLockIndex(q, v)
    \/ GveRead(q)
    \/ StatsLockCache(q)
    \/ StatsReadHits(q)
    \/ StatsFinish(q)

\* C14: clear is atomic to observers.  While a clear has emptied the tables
\* and not yet reset the counters, no other caller holds a guard and no get,
\* get_vertex_entries or get_stats call can take a step, so each of them sees
\* the state before the clear or the state after it; and the hits a
\* get_stats call has read are still the hits of the store when it reads the
\* misses and the entries.
C14_ClearAtomic ==
    /\ \A p \in DOMAIN call :
          (call[p].op = "clear" /\ call[p].pc = "tables_cleared")
          => \A q \in DOMAIN call \ {p} :
                /\ ~HoldsGuard(q)
                /\ ~ENABLED ObserverStep(q)
    /\ \A q \in DOMAIN call :
          (call[q].op = "get_stats" /\ call[q].pc = "hits_read")
          => call[q].tmp = hits

\* a clear has emptied the tables, the counters are not yet reset, and
\* another caller is free to start a call
C14_Witness ==
    \E p \in DOMAIN call :
        /\ call[p].op = "clear" /\ call[p].pc = "tables_cleared"
        /\ hits + misses > 0
        /\ opsStarted < MaxOps
        /\ \E q \in DOMAIN call \ {p} : IsIdle(q)

\* what a get on the pair pr returns from the main table c
Lookup(c, pr) ==
    LET ck == make_cache_key(pr[1], pr[2])
    IN IF ck \in DOMAIN c THEN Some(c[ck].value) ELSE None

\* the step in which the put of caller p inserts its entry
PutInserts(p) ==
    call[p].op = "put" /\ call[p].pc = "checked" /\ call'[p].pc = "inserted"

\* C15: two distinct (vertex_id, key) pairs never address the same entry:
\* the insert of a put on one pair leaves what a get on every other pair
\* returns as it was, also for pairs whose vertex_id or key holds the
\* delimiter.
C15_DistinctPairsDistinctEntries ==
    [][\A p \in DOMAIN call : PutInserts(p) =>
          \A pr \in Pairs \ {<<call[p].vertex_id, call[p].key>>} :
              Lookup(cache', pr) = Lookup(cache, pr)]_vars

\* the entries of the keys of row that resolve in the main table c, in the
\* order of row
RECURSIVE Resolving(_, _)
Resolving(c, row) ==
    IF row = <<>> THEN <<>>
    ELSE (IF Head(row) \in DOMAIN c THEN <<c[Head(row)]>> ELSE <<>>)
         \o Resolving(c, Tail(row))

\* the step in which the get_vertex_entries of caller p returns
GveReturns(p) ==
    /\ call[p].op = "get_vertex_entries"
    /\ call[p].pc = "index_locked" /\ call'[p].pc = "done"

\* C16: get_vertex_entries(v) returns, in the order of the index row of v,
\* the current entry of each composite key of the row that resolves in the
\* main table, skipping the keys that do not; it returns the empty sequence
\* for a vertex with no row; it always returns a sequence, and each entry it
\* returns is an entry of the main table.
C16_VertexEntriesInRowOrder ==
    [][\A p \in DOMAIN call : GveReturns(p) =>
          LET v == call[p].vertex_id
              row == IF v \in DOMAIN vertex_index THEN vertex_index[v] ELSE <<>>
              r == call'[p].ret
          IN /\ r.kind = "entries"
             /\ r.val = Resolving(cache, row)
             /\ v \notin DOMAIN vertex_index => r.val = <<>>
             /\ \A i \in 1..Len(r.val) : \E k \in DOMAIN cache : cache[k] = r.val[i]]_vars

\* get_vertex_entries has returned one entry for a row of two keys, the
\* first of which was evicted
C16_Witness ==
    \E p \in DOMAIN call :
        /\ call[p].op = "get_vertex_entries" /\ call[p].pc = "done"
        /\ Len(call[p].ret.val) = 1
        /\ "a" \in DOMAIN vertex_index
        /\ Len(vertex_index["a"]) = 2
        /\ vertex_index["a"][1] \notin DOMAIN cache
        /\ vertex_index["a"][2] \in DOMAIN cache

\* the step in which the get_stats of caller p returns
StatsReturns(p) ==
    call[p].op = "get_stats" /\ call[p].pc = "hits_read" /\ call'[p].pc = "done"

\* C17: in every result of get_stats, hit_rate is total_hits over
\* total_hits + total_misses when that sum is positive and 0 when it is 0
\* (hit_rate is kept as the exact ratio of the two integers the code
\* divides), and the two counters are one snapshot: their sum is the number
\* of get calls completed since the last clear.
C17_HitRateOfSnapshot ==
    [][\A p \in DOMAIN call : StatsReturns(p) =>
          LET r == call'[p].ret
              total == r.total_hits + r.total_misses
          IN /\ r.hit_rate.den > 0
             /\ total > 0 => r.hit_rate.num * total = r.total_hits * r.hit_rate.den
             /\ total = 0 => r.hit_rate.num = 0
             /\ total = getsDone
             /\ r.total_hits = hits /\ r.total_misses = misses]_vars

\* get_stats has returned a hit rate of 1 after one put and one get that hit
C17_Witness ==
    \E p \in DOMAIN call :
        /\ call[p].op = "get_stats" /\ call[p].pc = "done"
        /\ call[p].ret.total_hits = 1
        /\ call[p].ret.total_misses = 0
        /\ call[p].ret.hit_rate = Ratio(1, 1)
        /\ call[p].ret.total_entries = 1

\* the step in which the clear of caller p resets the counters and returns
ClearReturns(p) ==
    call[p].op = "clear" /\ call[p].pc = "tables_cleared" /\ call'[p].pc = "done"

\* a step of a call of caller p to one of the operations ops
StepOf(p, ops) == call'[p] # call[p] /\ call'[p].op \in ops

\* C18: from one state to the next neither counter decreases, except in
\* the step of a clear that sets both to 0; every step of put,
\* get_vertex_entries, invalidate_vertex, prefetch and get_stats leaves both
\* counters as they are.
C18_CountersMonotone ==
    [][/\ \/ hits' >= hits /\ misses' >= misses
          \/ \E p \in DOMAIN call : ClearReturns(p)
       /\ \A p \in DOMAIN call : ClearReturns(p) => hits' = 0 /\ misses' = 0
       /\ \A p \in DOMAIN call :
             StepOf(p, {"put", "get_vertex_entries", "invalidate_vertex",
                        "prefetch", "get_stats"})
             => hits' = hits /\ misses' = misses]_vars

\* a clear has returned after a get had counted, with both counters at 0
C18_Witness ==
    \E p, q \in DOMAIN call :
        /\ call[p].op = "clear" /\ call[p].pc = "done"
        /\ call[q].op = "get" /\ call[q].pc = "done"
        /\ hits = 0 /\ misses = 0

\* the contents of the first n chunks of q, concatenated
RECURSIVE Contents(_, _)
Contents(q, n) ==
    IF n = 0 THEN <<>> ELSE Contents(q, n - 1) \o q[n].content

\* C19: the text collect_stream returns is the concatenation, in arrival
\* order, of the content of every chunk up to and including the first chunk
\* marked final, or of every chunk up to the close of the channel when none
\* is final; collect_stream receives nothing after a final chunk; it
\* returns the empty text for a stream that closes with no chunk; and once
\* the producer has finished a running collect_stream always has a step to
\* take, each of which consumes a buffered chunk or returns.
C19_CollectConcatenates ==
    \A s \in Streams :
        /\ collector[s].pc = "returned"
           => LET r == received[s]
                  finals == {i \in 1..Len(r) : r[i].is_final}
              IN /\ collector[s].text = Contents(r, Len(r))
                 /\ finals \subseteq {Len(r)}
                 /\ finals = {} => rx[s] = "closed" /\ r = sent[s]
                 /\ r = <<>> => collector[s].text = <<>>
        /\ (collector[s].pc = "running" /\ task[s].pc = "done")
           => ENABLED (CollectRecv(s) \/ CollectNone(s))

\* collect_stream has returned the three bytes of an answer streamed in
\* three chunks
C19_Witness ==
    \E s \in Streams :
        /\ collector[s].pc = "returned"
        /\ Len(received[s]) = 3
        /\ received[s][3].is_final
        /\ collector[s].text = <<"a", "a", "a">>

\* C20: the contents of the chunks of a fully drained stream, concatenated
\* in chunk_id order, are the Reasoner's final answer, for every text, also
\* one with characters of more than one byte, and every chunk size.
C20_ChunksPartitionAnswer ==
    \A s \in Streams :
        (task[s].exit = "completed" /\ rx[s] = "closed")
        => Contents(received[s], Len(received[s])) = task[s].answer


(***************************************************************************)
(* Claims about get_stream_stats.                                          *)
(***************************************************************************)
RECURSIVE NodesIn(_, _)
\* the graph nodes named by the first n chunks of q, counted per chunk
NodesIn(q, n) ==
    IF n = 0 THEN 0
    ELSE NodesIn(q, n - 1) + Len(q[n].metadata.graph_nodes_accessed)

RECURSIVE HitsIn(_, _)
\* the sum of the cache_hits of the first n chunks of q
HitsIn(q, n) ==
    IF n = 0 THEN 0 ELSE HitsIn(q, n - 1) + q[n].metadata.cache_hits

\* C21: get_stream_stats returns the number of chunks it drained, which are
\* the first chunks sent up to and including the final one, the sums of their
\* graph_nodes_accessed lengths and cache_hits, the last timestamp minus the
\* first as duration and the duration divided by the number of chunks as
\* average; with no chunk drained both are 0.
C21_StreamStatsOfDrained ==
    \A s \in Streams :
        (collector[s].pc = "returned" /\ collector[s].fn = "get_stream_stats") =>
            LET r == received[s]
                n == Len(r)
                st == collector[s].ret
            IN /\ n <= Len(sent[s]) /\ r = SubSeq(sent[s], 1, n)
               /\ \A i \in 1..n : r[i].is_final => i = n
               /\ (n = 0 \/ ~r[n].is_final) => (task[s].pc = "done" /\ n = Len(sent[s]))
               /\ st.total_chunks = n
               /\ st.total_graph_nodes = NodesIn(r, n)
               /\ st.total_cache_hits = HitsIn(r, n)
               /\ st.duration_ms =
                      (IF n = 0 THEN 0
                       ELSE r[n].metadata.timestamp_ms - r[1].metadata.timestamp_ms)
               /\ st.avg_chunk_time_ms =
                      (IF n = 0 THEN 0 ELSE st.duration_ms \div n)

\* three chunks were drained while the clock advanced between the first and
\* the last: the average is the rounded-down third of the duration
C21_Witness ==
    \E s \in Streams :
        /\ collector[s].pc = "returned" /\ collector[s].fn = "get_stream_stats"
        /\ config.enable_parallel_graph
        /\ collector[s].ret.total_chunks = 3
        /\ collector[s].ret.total_graph_nodes = 12
        /\ collector[s].ret.total_cache_hits = 3
        /\ collector[s].ret.duration_ms = 1000
        /\ collector[s].ret.avg_chunk_time_ms = 333


(***************************************************************************)
(* Claims about the progress of a stream.                                  *)
(***************************************************************************)
\* the task of s has returned after sending every chunk, the caller has
\* received all of them, the last one marked final, and then None
DrainedToEnd(s) ==
    /\ task[s].pc = "done" /\ task[s].exit = "completed"
    /\ rx[s] = "closed" /\ chan[s] = <<>>
    /\ received[s] = built[s]
    /\ Len(received[s]) = Len(task[s].chunks)
    /\ task[s].answer # <<>> =>
           /\ received[s] # <<>>
           /\ received[s][Len(received[s])].is_final

\* C22: once the task of a stream is spawned, with a scheduler that is fair to
\* the task, to its probes and to a caller that keeps receiving, and with the
\* cache left to the probes, the task eventually returns and the channel
\* closes; when the Reasoner succeeded, every chunk was delivered by then and
\* the last one received is marked final when the answer is not empty.
C22_StreamDrains ==
    \A s \in LiveStreams :
        (task[s].pc = "spawned") ~>
            (/\ task[s].pc = "done" /\ rx[s] = "closed"
             /\ task[s].exit # "failed" => DrainedToEnd(s))

\* three chunks with their probes were delivered and the channel closed
C22_Witness ==
    \E s \in LiveStreams :
        /\ DrainedToEnd(s)
        /\ config.enable_parallel_graph
        /\ Len(received[s]) = 3
        /\ probesIssued[s] = 12


(***************************************************************************)
(* Claims about prefetch and the vertex index.                             *)
(***************************************************************************)
\* the row of vertex v in the index idx, empty when v has none
RowOf(idx, v) == IF v \in DOMAIN idx THEN idx[v] ELSE <<>>

\* the count a prefetch call c has reached
PrefetchTotal(c) == IF c.pc = "done" THEN c.ret.val ELSE c.tmp

\* C23: prefetch starts from zero and adds, for each vertex id of its list in
\* turn, the number of entries get_vertex_entries returns for it, and returns
\* the total; no step of prefetch or of get_vertex_entries changes the main
\* table with its access counts and times, the vertex index, hits or misses.
C23_PrefetchCountsAndReadsOnly ==
    [][\A p \in Clients :
          /\ StepOf(p, {"prefetch", "get_vertex_entries"}) =>
                 /\ cache' = cache /\ vertex_index' = vertex_index
                 /\ hits' = hits /\ misses' = misses
          /\ (call[p].op # "prefetch" /\ call'[p].op = "prefetch") =>
                 PrefetchTotal(call'[p]) = 0
          /\ (call[p].op = "prefetch" /\ call[p].pc = "index_locked"
                /\ call'[p] # call[p]) =>
                 /\ PrefetchTotal(call'[p]) = call[p].tmp
                       + Len(Resolving(cache, RowOf(vertex_index, Head(call[p].rest))))
                 /\ call'[p].rest = Tail(call[p].rest)
                 /\ call'[p].pc = "done" <=> Tail(call[p].rest) = <<>>]_vars

\* prefetch of a vertex listed twice returned 2 for its single entry, and the
\* entry was not touched
C23_Witness ==
    \E p \in Clients :
        /\ call[p].op = "prefetch" /\ call[p].pc = "done"
        /\ call[p].ret.val = 2
        /\ RowOf(vertex_index, "a") = <<make_cache_key("a", "c")>>
        /\ make_cache_key("a", "c") \in DOMAIN cache
        /\ cache[make_cache_key("a", "c")].access_count = 1
        /\ hits = 0 /\ misses = 0

\* a step of caller q that is granted, or reads under, a guard of the main
\* table: the steps of get, get_vertex_entries and get_stats that look at it
TableReadStep(q) ==
    \/ \E v \in Vertices, k \in Keys : ClientGet(q, v, k)
    \/ GetLockCache(q)
    \/ GetFinish(q)
    \/ GveRead(q)
    \/ StatsLockCache(q)
    \/ StatsReadHits(q)
    \/ StatsFinish(q)

\* put call p has inserted its entry and not yet appended to the index
BetweenInsertAndAppend(p) == call[p].op = "put" /\ call[p].pc = "inserted"

\* the keys of the index row of vertex v
RowKeys(v) ==
    {RowOf(vertex_index, v)[i] : i \in 1..Len(RowOf(vertex_index, v))}

\* C24 as stated: the insert and the append of put are separate critical
\* sections, so between them the put does not hold the guard of the main
\* table and another caller that may start a call can read the main table.
C24_AsStated ==
    \A p \in Clients :
        BetweenInsertAndAppend(p) =>
            /\ p \notin locks["cache"].w
            /\ \A q \in Clients \ {p} :
                  (IsIdle(q) /\ opsStarted < MaxOps) => ENABLED TableReadStep(q)

\* C24, amended: a put holds the write guard of the main table from before
\* its insert until it returns after the append, so between the two no get,
\* get_vertex_entries or get_stats call reads the main table; and an entry
\* whose composite key is missing from the index row of its vertex exists only
\* while the put that inserted it is between its insert and its append.
C24_InsertAndAppendInOneSection ==
    /\ \A p \in Clients :
          BetweenInsertAndAppend(p) =>
              /\ locks["cache"].w = {p} /\ locks["cache"].r = {}
              /\ \A q \in Clients \ {p} : ~ENABLED TableReadStep(q)
    /\ \A k \in DOMAIN cache :
          \/ k \in RowKeys(cache[k].vertex_id)
          \/ \E p \in Clients :
                /\ BetweenInsertAndAppend(p)
                /\ k = make_cache_key(call[p].vertex_id, call[p].key)

\* a put has inserted an entry whose key is not yet in the row of its vertex
\* while another caller is free to start a call
C24_Witness ==
    \E p \in Clients :
        /\ BetweenInsertAndAppend(p)
        /\ make_cache_key(call[p].vertex_id, call[p].key) \in DOMAIN cache
        /\ make_cache_key(call[p].vertex_id, call[p].key) \notin RowKeys(call[p].vertex_id)
        /\ \E q \in Clients \ {p} : IsIdle(q) /\ opsStarted < MaxOps

\* C25: every put for v appends one composite key to the row of v, also when
\* it overwrites, and eviction leaves the rows alone: the length of the row of
\* v is the number of put calls for v completed since the last
\* invalidate_vertex(v) or clear.
C25_RowCountsPuts ==
    \A v \in Vertices : Len(RowOf(vertex_index, v)) = putsDone[v]

\* two puts of the same key left a row of two keys for one live entry
C25_Witness ==
    /\ putsDone["a"] = 2
    /\ RowOf(vertex_index, "a") = <<make_cache_key("a", "c"), make_cache_key("a", "c")>>
    /\ DOMAIN cache = {make_cache_key("a", "c")}
    /\ max_entries = 2


(***************************************************************************)
(* Claims about the probes of a stream.                                    *)
(***************************************************************************)
\* the four vertex ids probed for chunk i
FourIds(i) ==
    <<"vertex_" \o Decimal(i) \o "_0", "vertex_" \o Decimal(i) \o "_1",
      "vertex_" \o Decimal(i) \o "_2", "vertex_" \o Decimal(i) \o "_3">>

\* C26: with parallel graph access the task starts, for chunk i, exactly the
\* four gets of vertex_i_0 .. vertex_i_3 with key "embedding", builds and
\* sends the chunk only when the four have completed, and names exactly these
\* four ids in the chunk; every chunk built so far has raised hits + misses by
\* 4, so a stream of n chunks that ran to its end has raised them by 4n.
C26_FourProbesPerChunk ==
    config.enable_parallel_graph =>
      \A s \in Streams :
        LET joining == task[s].pc = "join"
            done == {p \in ProbesOf(s) : call[p].pc = "done"}
        IN /\ probesIssued[s] = 4 * (Len(built[s]) + (IF joining THEN 1 ELSE 0))
           /\ \A n \in 1..Len(built[s]) :
                 /\ built[s][n].chunk_id = n - 1
                 /\ built[s][n].metadata.graph_nodes_accessed = FourIds(n - 1)
           /\ joining =>
                 /\ Cardinality(ProbesOf(s)) = 4
                 /\ \A j \in 1..4 :
                       /\ call[ProbeId(s, j)].op = "get"
                       /\ call[ProbeId(s, j)].vertex_id = FourIds(task[s].i)[j]
                       /\ call[ProbeId(s, j)].key = "embedding"
           /\ ~joining => \A p \in ProbesOf(s) : call[p] = IdleCall
           /\ Len(sent[s]) <= Len(built[s])
           /\ hits + misses =
                 4 * Len(built[s]) + (IF joining THEN Cardinality(done) ELSE 0)
           /\ task[s].exit = "completed" =>
                 hits + misses = 4 * Len(task[s].chunks)

\* a stream of three chunks was drained to its end: 12 probes
C26_Witness ==
    \E s \in Streams :
        /\ config.enable_parallel_graph
        /\ task[s].exit = "completed" /\ rx[s] = "closed"
        /\ Len(received[s]) = 3
        /\ hits + misses = 12


\* C27: the task of a stream invokes the Reasoner once, as its first step:
\* until then no chunk is built or sent and no probe is issued, and afterwards
\* it is never invoked again; the caller holds the Receiver while the Reasoner
\* has not been invoked yet.
C27_ReasonerOnceAndFirst ==
    \A s \in Streams :
        /\ task[s].reason_calls <= 1
        /\ task[s].reason_calls = 0 <=> task[s].pc \in {"unspawned", "spawned"}
        /\ task[s].reason_calls = 0 =>
              /\ built[s] = <<>> /\ sent[s] = <<>> /\ probesIssued[s] = 0
              /\ \A p \in ProbesOf(s) : call[p] = IdleCall
        /\ task[s].pc = "spawned" => rx[s] \in {"open", "dropped"}
        /\ task[s].pc = "unspawned" => rx[s] = "none"

\* three chunks with their probes were built and received after one call of
\* the Reasoner
C27_Witness ==
    \E s \in Streams :
        /\ task[s].reason_calls = 1
        /\ task[s].exit = "completed"
        /\ Len(built[s]) = 3 /\ Len(received[s]) = 3
        /\ probesIssued[s] = 12


(***************************************************************************)
(* Claims about rows that out-grow the live entries, and about the         *)
(* overwriting put.                                                        *)
(***************************************************************************)
\* the composite keys of the entries of the main table that belong to v
LiveKeysOf(v) == {k \in DOMAIN cache : cache[k].vertex_id = v}

\* C28: get_vertex_entries(v) returns each live entry at most once: no key of
\* the row of v that resolves in the main table stands in the row twice, and
\* the returned sequence is no longer than the number of entries of the main
\* table that belong to v; prefetch adds no more than that for v.
C28_EachLiveEntryOnce ==
    [][\A p \in Clients :
          /\ GveReturns(p) =>
                LET row == RowOf(vertex_index, call[p].vertex_id)
                IN /\ Len(call'[p].ret.val) <= Cardinality(LiveKeysOf(call[p].vertex_id))
                   /\ \A i, j \in 1..Len(row) :
                         (i # j /\ row[i] \in DOMAIN cache) => row[i] # row[j]
          /\ (call[p].op = "prefetch" /\ call[p].pc = "index_locked"
                /\ call'[p] # call[p]) =>
                PrefetchTotal(call'[p]) - call[p].tmp
                    <= Cardinality(LiveKeysOf(Head(call[p].rest)))]_vars

\* C29: a put on a pair whose composite key is in the main table removes no
\* entry of another key, also at max_entries: with the key of the put itself
\* put back, the keys after its eviction check are the keys before it.
C29_OverwriteKeepsOtherKeys ==
    [][\A p \in Clients :
          (/\ EvictStep(p)
           /\ make_cache_key(call[p].vertex_id, call[p].key) \in DOMAIN cache) =>
              DOMAIN cache' \cup {make_cache_key(call[p].vertex_id, call[p].key)}
                  = DOMAIN cache]_vars

\* C30: the cache_hits of a chunk is the number of its probes that returned a
\* hit: it is at most the number of ids in graph_nodes_accessed, and, the
\* probes being the only gets, the cache_hits of the chunks built add up to
\* the hits counted by the cache once the probes of a chunk have been joined.
C30_CacheHitsCountsProbeHits ==
    \A s \in Streams :
        /\ \A n \in 1..Len(built[s]) :
              built[s][n].metadata.cache_hits
                  <= Len(built[s][n].metadata.graph_nodes_accessed)
        /\ task[s].pc # "join" => HitsIn(built[s], Len(built[s])) = hits


(***************************************************************************)
(* Claims about what a stream does to the cache and about confidence.      *)
(***************************************************************************)
\* a step of a stream: of its task or of one of its probes
StreamStep ==
    \/ task' # task
    \/ \E p \in AllProbes(Streams) : call'[p] # call[p]

\* probe p returns from a get that found the entry of key k
ProbeHits(p, k) ==
    /\ call[p].op = "get" /\ call[p].pc = "cache_locked" /\ call'[p].pc = "done"
    /\ k = make_cache_key(call[p].vertex_id, call[p].key)
    /\ call'[p].ret = Some(cache[k].value)

\* C31: no step of a stream adds, removes or overwrites an entry of the main
\* table or changes the vertex index or max_entries; a step changes hits or
\* misses only by counting one probe, and changes an entry only when a probe
\* hits it, and then only its access_count, by one, and its last-access time,
\* to now.
C31_StreamsOnlyTouchCounters ==
    [][StreamStep =>
          /\ vertex_index' = vertex_index
          /\ max_entries' = max_entries
          /\ DOMAIN cache' = DOMAIN cache
          /\ hits' + misses' \in {hits + misses, hits + misses + 1}
          /\ hits' >= hits /\ misses' >= misses
          /\ \A k \in DOMAIN cache :
                /\ cache'[k].vertex_id = cache[k].vertex_id
                /\ cache'[k].key = cache[k].key
                /\ cache'[k].value = cache[k].value
                /\ cache'[k].computation_cost = cache[k].computation_cost
                /\ cache'[k] # cache[k] =>
                      /\ \E p \in AllProbes(Streams) : ProbeHits(p, k)
                      /\ hits' = hits + 1
                      /\ cache'[k].access_count = cache[k].access_count + 1
                      /\ cache'[k].timestamp = current_timestamp]_vars

\* both streams ran to their end; probes of both hit the entry a client had
\* put a second earlier, and six probes missed
C31_Witness ==
    /\ \A s \in Streams : task[s].exit = "completed" /\ Len(built[s]) = 1
    /\ hits = 2 /\ misses = 6
    /\ DOMAIN cache = {make_cache_key(ProbeVertex(0, 0), "embedding")}
    /\ cache[make_cache_key(ProbeVertex(0, 0), "embedding")].access_count = 3
    /\ cache[make_cache_key(ProbeVertex(0, 0), "embedding")].timestamp = 1
    /\ putsDone[ProbeVertex(0, 0)] = 1

\* C32: the confidence of every chunk built, in hundredths, lies between 0
\* and 100, for every answer length and chunk size.
C32_ConfidenceInUnitInterval ==
    \A s \in Streams :
        \A n \in 1..Len(built[s]) :
            /\ built[s][n].metadata.confidence >= 0
            /\ built[s][n].metadata.confidence <= 100

====
